---- MODULE Spec2Model ----
(***************************************************************************)
(* Model of the transcript parser of convo (src/convo/parser.py).          *)
(*                                                                         *)
(* A line is a sequence of characters; a character is a one-element        *)
(* string, the four non-ASCII marker glyphs being named by code point.     *)
(* The regular expressions of the parser are translated position by        *)
(* position over these sequences.                                          *)
(***************************************************************************)
EXTENDS Integers, Sequences, FiniteSets

----------------------------------------------------------------------------
(* Characters *)

PromptGlyph  == "U+276F"   \* the prompt marker of a user line
BulletGlyph  == "U+25CF"   \* the bullet marker of an assistant line
CornerGlyph  == "U+23BF"   \* opens a line of tool output
SparkleGlyph == "U+273B"   \* opens a progress line

UpperSeq == << "A", "B", "C", "D", "E", "F", "G", "H", "I", "J", "K", "L", "M",
               "N", "O", "P", "Q", "R", "S", "T", "U", "V", "W", "X", "Y", "Z" >>
LowerSeq == << "a", "b", "c", "d", "e", "f", "g", "h", "i", "j", "k", "l", "m",
               "n", "o", "p", "q", "r", "s", "t", "u", "v", "w", "x", "y", "z" >>

IsUpper(c)  == \E k \in 1..Len(UpperSeq) : UpperSeq[k] = c
IsLower(c)  == \E k \in 1..Len(LowerSeq) : LowerSeq[k] = c
IsLetter(c) == IsUpper(c) \/ IsLower(c)
IsDigit(c)  == c \in {"0", "1", "2", "3", "4", "5", "6", "7", "8", "9"}
\* \w of the re module
IsWord(c)   == IsLetter(c) \/ IsDigit(c) \/ c = "_"
\* \s of the re module and the characters str.strip() removes
IsSpace(c)  == c \in {" ", "\t"}

\* str.lower(), one character
LowerChar(c) ==
    IF IsUpper(c)
    THEN LowerSeq[CHOOSE k \in 1..Len(UpperSeq) : UpperSeq[k] = c]
    ELSE c

\* str.lower()
LowerStr(s) == [k \in 1..Len(s) |-> LowerChar(s[k])]

\* s[k:] with k counted from 0, as Python slices
DropFirst(s, k) == IF Len(s) <= k THEN << >> ELSE SubSeq(s, k + 1, Len(s))

\* str.startswith
StartsWith(s, p) == Len(s) >= Len(p) /\ SubSeq(s, 1, Len(p)) = p

\* p in s
Contains(s, p) ==
    \E k \in 1..Len(s) : k + Len(p) - 1 <= Len(s) /\ SubSeq(s, k, k + Len(p) - 1) = p

\* str.lstrip() in place of str.strip()
Strip_LeftOnly(s) ==
    LET keep == {k \in 1..Len(s) : ~IsSpace(s[k])}
    IN  IF keep = {} THEN << >>
        ELSE SubSeq(s, CHOOSE k \in keep : \A m \in keep : k <= m, Len(s))

\* str.strip()
Strip(s) ==
    LET keep == {k \in 1..Len(s) : ~IsSpace(s[k])}
    IN  IF keep = {} THEN << >>
        ELSE LET lo == CHOOSE k \in keep : \A m \in keep : k <= m
                 hi == CHOOSE k \in keep : \A m \in keep : m <= k
             IN  SubSeq(s, lo, hi)

----------------------------------------------------------------------------
(* Line classification *)

USER_TURN    == "user"
ASST_TURN    == "assistant"
TOOL_CALL    == "tool_call"
TOOL_OUTPUT  == "tool_output"
PROGRESS     == "progress"
CONTINUATION == "cont"

LineType == {USER_TURN, ASST_TURN, TOOL_CALL, TOOL_OUTPUT, PROGRESS, CONTINUATION}

PromptMarker == << PromptGlyph, " " >>
BulletMarker == << BulletGlyph, " " >>
ReadWord     == << "R", "e", "a", "d" >>
SearchedWord == << "S", "e", "a", "r", "c", "h", "e", "d" >>
CtrlO        == << "c", "t", "r", "l", "+", "o" >>
ForWord      == << " ", "f", "o", "r", " " >>
Dashes       == << "-", "-", "-" >>

\* the pattern compiled with re.IGNORECASE
ToolCallMatch_IgnoreCase(line) ==
    /\ StartsWith(line, BulletMarker)
    /\ \/ /\ Len(line) >= 3
          /\ IsLetter(line[3])
          /\ \E k \in 5..Len(line) :
                /\ line[k] = "("
                /\ \A j \in 4..(k - 1) : IsLetter(line[j])
       \/ /\ Len(line) >= 7
          /\ LowerStr(SubSeq(line, 3, 6)) = LowerStr(ReadWord)
          /\ IsSpace(line[7])
       \/ /\ Len(line) >= 10
          /\ LowerStr(SubSeq(line, 3, 10)) = LowerStr(SearchedWord)
          /\ (Len(line) = 10 \/ ~IsWord(line[11]))

\* ^MARKER ([A-Z][a-zA-Z]+\( | Read\s | Searched\b)
ToolCallMatch(line) ==
    /\ StartsWith(line, BulletMarker)
    /\ \/ /\ Len(line) >= 3
          /\ IsUpper(line[3])
          /\ \E k \in 5..Len(line) :
                /\ line[k] = "("
                /\ \A j \in 4..(k - 1) : IsLetter(line[j])
       \/ /\ Len(line) >= 7
          /\ SubSeq(line, 3, 6) = ReadWord
          /\ IsSpace(line[7])
       \/ /\ Len(line) >= 10
          /\ SubSeq(line, 3, 10) = SearchedWord
          /\ (Len(line) = 10 \/ ~IsWord(line[11]))

\* ^SPARKLE .+ for \d+
ProgressMatch(s) ==
    /\ Len(s) >= 2
    /\ s[1] = SparkleGlyph
    /\ s[2] = " "
    /\ \E k \in 4..Len(s) :
          /\ k + 5 <= Len(s)
          /\ SubSeq(s, k, k + 4) = ForWord
          /\ IsDigit(s[k + 5])

\* ^\s*CORNER
ToolOutputMatch(line) ==
    \E k \in 1..Len(line) :
        /\ line[k] = CornerGlyph
        /\ \A j \in 1..(k - 1) : IsSpace(line[j])

\* ^PROMPT /\w
SlashCmdMatch(line) ==
    /\ Len(line) >= 4
    /\ SubSeq(line, 1, 2) = PromptMarker
    /\ line[3] = "/"
    /\ IsWord(line[4])

\* the search for the hint without lowering the line first
CtrlOHint_CaseSensitive(line) == Contains(line, CtrlO)

\* "ctrl+o" in line.lower()
CtrlOHint(line) == Contains(LowerStr(line), CtrlO)

\* the classifier without the return that ends the branch of the bullet marker
Classify_BulletFallsThrough(line) ==
    IF StartsWith(line, PromptMarker)
    THEN IF SlashCmdMatch(line) THEN TOOL_CALL ELSE USER_TURN
    ELSE IF StartsWith(line, BulletMarker) /\ (ToolCallMatch(line) \/ CtrlOHint(line))
    THEN TOOL_CALL
    ELSE IF ToolOutputMatch(line) THEN TOOL_OUTPUT
    ELSE IF ProgressMatch(Strip(line)) THEN PROGRESS
    ELSE CONTINUATION

\* the classifier without the test for a slash command
Classify_NoSlashCheck(line) ==
    IF StartsWith(line, PromptMarker)
    THEN USER_TURN
    ELSE IF StartsWith(line, BulletMarker)
    THEN IF ToolCallMatch(line) \/ CtrlOHint(line) THEN TOOL_CALL ELSE ASST_TURN
    ELSE IF ToolOutputMatch(line) THEN TOOL_OUTPUT
    ELSE IF ProgressMatch(Strip(line)) THEN PROGRESS
    ELSE CONTINUATION

Classify(line) ==
    IF StartsWith(line, PromptMarker)
    THEN IF SlashCmdMatch(line) THEN TOOL_CALL ELSE USER_TURN
    ELSE IF StartsWith(line, BulletMarker)
    THEN IF ToolCallMatch(line) \/ CtrlOHint(line) THEN TOOL_CALL ELSE ASST_TURN
    ELSE IF ToolOutputMatch(line) THEN TOOL_OUTPUT
    ELSE IF ProgressMatch(Strip(line)) THEN PROGRESS
    ELSE CONTINUATION

----------------------------------------------------------------------------
(* Paragraph reflow *)

\* "".join(current): the fragments run together
RECURSIVE JoinSpace_NoSeparator(_)
JoinSpace_NoSeparator(frags) ==
    IF frags = << >> THEN << >>
    ELSE frags[1] \o JoinSpace_NoSeparator(Tail(frags))

\* " ".join(current)
RECURSIVE JoinSpace(_)
JoinSpace(frags) ==
    IF frags = << >> THEN << >>
    ELSE IF Len(frags) = 1 THEN frags[1]
    ELSE frags[1] \o << " " >> \o JoinSpace(Tail(frags))

\* the flush shared by the three places that close a paragraph
Flush(paragraphs, current) ==
    IF current # << >> THEN Append(paragraphs, JoinSpace(current)) ELSE paragraphs

\* the loop body without the branch for "---"
ParaStep_DashIsText(paragraphs, current, line) ==
    LET stripped == Strip(line)
    IN  IF stripped = << >>
        THEN << Flush(paragraphs, current), << >> >>
        ELSE << paragraphs, Append(current, stripped) >>

\* the loop body with `current = []` forgotten after the flush before "---"
ParaStep_NoReset(paragraphs, current, line) ==
    LET stripped == Strip(line)
    IN  IF stripped = << >>
        THEN << Flush(paragraphs, current), << >> >>
        ELSE IF stripped = Dashes
        THEN << Append(Flush(paragraphs, current), Dashes), current >>
        ELSE << paragraphs, Append(current, stripped) >>

\* one iteration of the loop over raw_lines: the new <<paragraphs, current>>
ParaStep(paragraphs, current, line) ==
    LET stripped == Strip(line)
    IN  IF stripped = << >>
        THEN << Flush(paragraphs, current), << >> >>
        ELSE IF stripped = Dashes
        THEN << Append(Flush(paragraphs, current), Dashes), << >> >>
        ELSE << paragraphs, Append(current, stripped) >>

RECURSIVE ParaLoop(_, _, _, _)
ParaLoop(raw_lines, k, paragraphs, current) ==
    IF k > Len(raw_lines)
    THEN Flush(paragraphs, current)
    ELSE LET st == ParaStep(paragraphs, current, raw_lines[k])
         IN  ParaLoop(raw_lines, k + 1, st[1], st[2])

NonEmpty(p) == p # << >>

Paragraphize(raw_lines) ==
    SelectSeq(ParaLoop(raw_lines, 1, << >>, << >>), NonEmpty)

----------------------------------------------------------------------------
(* detect_title and detect_date: patterns, fallbacks and inputs *)

\* str.upper() on one character
UpperChar(c) ==
    IF IsLower(c)
    THEN UpperSeq[CHOOSE k \in 1..Len(LowerSeq) : LowerSeq[k] = c]
    ELSE c

\* the index of the first character at or after p that is not whitespace,
\* Len(s) + 1 if there is none
SkipSpaces(s, p) ==
    CHOOSE q \in p..(Len(s) + 1) :
        /\ \A m \in p..(q - 1) : IsSpace(s[m])
        /\ q = Len(s) + 1 \/ ~IsSpace(s[q])

\* the number of digits in a row from p on
DigitRun(s, p) ==
    CHOOSE n \in 0..(Len(s) + 1 - p) :
        /\ \A m \in p..(p + n - 1) : IsDigit(s[m])
        /\ p + n = Len(s) + 1 \/ ~IsDigit(s[p + n])

\* \b next to a word character at p: the character on the other side, at q, is
\* missing or is not a word character
WordEdge(s, q) == q < 1 \/ q > Len(s) \/ ~IsWord(s[q])

\* ^#\s+(.+) matches s
TitleMatch(s) ==
    /\ Len(s) >= 3
    /\ s[1] = "#"
    /\ IsSpace(s[2])
    /\ SkipSpaces(s, 2) <= Len(s)

\* m.group(1) of a match of ^#\s+(.+)
TitleGroup(s) == SubSeq(s, SkipSpaces(s, 2), Len(s))

\* str.replace on single characters
ReplaceChar(s, old, new) == [k \in 1..Len(s) |-> IF s[k] = old THEN new ELSE s[k]]

\* the fallback that upper-cases the first letter only, as str.capitalize does
Title_Capitalize(s) ==
    [k \in 1..Len(s) |-> IF k = 1 THEN UpperChar(s[k]) ELSE LowerChar(s[k])]

\* str.title(): a letter after a letter is lowered, any other letter is raised
Title(s) ==
    [k \in 1..Len(s) |->
        IF k > 1 /\ IsLetter(s[k - 1]) THEN LowerChar(s[k]) ELSE UpperChar(s[k])]

\* \b(\d{4}-\d{2}-\d{2})\b matches at k
IsoAt(s, k) ==
    /\ k + 9 <= Len(s)
    /\ \A m \in { 0, 1, 2, 3, 5, 6, 8, 9 } : IsDigit(s[k + m])
    /\ s[k + 4] = "-"
    /\ s[k + 7] = "-"
    /\ WordEdge(s, k - 1)
    /\ WordEdge(s, k + 10)

\* the value standing for None
NoMatch == << >>

\* iso_re.search(line), its group 1
IsoSearch(s) ==
    LET at == { k \in 1..Len(s) : IsoAt(s, k) }
    IN  IF at = { } THEN NoMatch
        ELSE LET k == CHOOSE a \in at : \A b \in at : a <= b
             IN  SubSeq(s, k, k + 9)

Months == { << "J", "a", "n", "u", "a", "r", "y" >>,
            << "F", "e", "b", "r", "u", "a", "r", "y" >>,
            << "M", "a", "r", "c", "h" >>,
            << "A", "p", "r", "i", "l" >>,
            << "M", "a", "y" >>,
            << "J", "u", "n", "e" >>,
            << "J", "u", "l", "y" >>,
            << "A", "u", "g", "u", "s", "t" >>,
            << "S", "e", "p", "t", "e", "m", "b", "e", "r" >>,
            << "O", "c", "t", "o", "b", "e", "r" >>,
            << "N", "o", "v", "e", "m", "b", "e", "r" >>,
            << "D", "e", "c", "e", "m", "b", "e", "r" >> }

\* where a match of written_re that begins at k ends, 0 if there is none:
\* \b Month \s+ \d{1,2} ,? \s+ \d{4} \b
WrittenEnd(s, k) ==
    LET ms == { mo \in Months : StartsWith(DropFirst(s, k - 1), mo) }
    IN  IF ms = { } \/ ~WordEdge(s, k - 1) THEN 0
        ELSE LET p1  == k + Len(CHOOSE mo \in ms : TRUE)
                 q1  == SkipSpaces(s, p1)
                 day == DigitRun(s, q1)
                 p2  == q1 + day
                 p3  == IF p2 <= Len(s) /\ s[p2] = "," THEN p2 + 1 ELSE p2
                 q3  == SkipSpaces(s, p3)
             IN  IF /\ q1 > p1
                    /\ day \in { 1, 2 }
                    /\ q3 > p3
                    /\ DigitRun(s, q3) = 4
                    /\ WordEdge(s, q3 + 4)
                 THEN q3 + 3
                 ELSE 0

\* written_re.search(line), its group 0
WrittenSearch(s) ==
    LET at == { k \in 1..Len(s) : WrittenEnd(s, k) # 0 }
    IN  IF at = { } THEN NoMatch
        ELSE LET k == CHOOSE a \in at : \A b \in at : a <= b
             IN  SubSeq(s, k, WrittenEnd(s, k))

\* the written date is looked for before the ISO date
DatePatterns_WrittenFirst == << "written", "iso" >>

\* the two loops of detect_date, in their order
DatePatterns == << "iso", "written" >>

\* the search of one loop
DateSearch(pattern, line) ==
    IF pattern = "iso" THEN IsoSearch(line) ELSE WrittenSearch(line)

DigitChars == << "0", "1", "2", "3", "4", "5", "6", "7", "8", "9" >>

\* n in decimal, w digits wide, zero-padded
RECURSIVE Padded(_, _)
Padded(n, w) ==
    IF w = 0 THEN << >>
    ELSE Append(Padded(n \div 10, w - 1), DigitChars[(n % 10) + 1])

\* strftime("%Y-%m-%d")
FormatDate(t) == Padded(t.y, 4) \o << "-" >> \o Padded(t.m, 2) \o << "-" >> \o Padded(t.d, 2)

\* the longest head
MaxHead == 3

H_title == << "#", " ", "T" >>
H_titleDated == << " ", "#", " ", " ", "2", "0", "2", "6", "-", "0", "2", "-", "0", "3", " ", "a", " ", "b", " " >>
H_hashOnly == << "#", "x", " ", "#", " " >>
H_iso == << "o", "n", " ", "2", "0", "2", "6", "-", "0", "1", "-", "1", "5", "." >>
H_isoTwice == << "2", "0", "2", "5", "-", "1", "2", "-", "3", "1", " ", "2", "0", "2", "6", "-", "0", "1", "-", "1", "5" >>
H_written == << "M", "a", "y", " ", "5", ",", " ", "2", "0", "2", "6" >>
H_writtenBare == << "x", " ", "M", "a", "r", "c", "h", " ", "1", "2", "\t", "2", "0", "2", "7", " ", "y" >>
H_near == << "1", "2", "0", "2", "6", "-", "0", "1", "-", "1", "5", " ", "M", "a", "y", " ", "5", ",", "2", "0", "2", "6" >>
H_blank == << >>

HeadLines == { H_title, H_titleDated, H_hashOnly, H_iso, H_isoTwice, H_written, H_writtenBare, H_near, H_blank }

Stems == { << "s", "a", "m", "p", "l", "e", "_", "c", "o", "n", "v", "e", "r", "s", "a", "t", "i", "o", "n" >>,
           << "m", "y", "-", "C", "h", "a", "t", "_", "2", "b" >> }

Mtimes == { [y |-> 2026, m |-> 1, d |-> 5], [y |-> 1999, m |-> 12, d |-> 31] }

\* path.stat() has not been called
NoTime == [y |-> 0, m |-> 0, d |-> 0]

\* what main may hand to detect_title as turns
TurnsArgs == { << >>,
               << [speaker |-> "user", paragraphs |-> << << "h", "i" >> >>,
                   speaker_label |-> "User"] >> }


----------------------------------------------------------------------------
(* PII redaction: the regex layer of privacy.py *)

IsAlnum(c) == IsLetter(c) \/ IsDigit(c)

\* the number of characters in a row from p on that are in the set cs
RunOf(s, p, cs) ==
    CHOOSE n \in 0..(Len(s) + 1 - p) :
        /\ \A m \in p..(p + n - 1) : s[m] \in cs
        /\ p + n = Len(s) + 1 \/ s[p + n] \notin cs

\* the number of characters in a row from p on that are not whitespace
RunOfNonSpace(s, p) ==
    CHOOSE n \in 0..(Len(s) + 1 - p) :
        /\ \A m \in p..(p + n - 1) : ~IsSpace(s[m])
        /\ p + n = Len(s) + 1 \/ IsSpace(s[p + n])

\* s holds the word w at p
HasAt(s, p, w) == p + Len(w) - 1 <= Len(s) /\ SubSeq(s, p, p + Len(w) - 1) = w

\* the fewest characters after "sk-" that make a key
MinKeyLen == 20

KeyPrefix    == << "s", "k", "-" >>
BearerPrefix == << "B", "e", "a", "r", "e", "r", " " >>
PasswordWord == << "p", "a", "s", "s", "w", "o", "r", "d" >>
BearerChars  == { c \in { UpperSeq[k] : k \in 1..Len(UpperSeq) } \cup { LowerSeq[k] : k \in 1..Len(LowerSeq) } : TRUE }
                    \cup { "0", "1", "2", "3", "4", "5", "6", "7", "8", "9",
                           "-", ".", "_", "~", "+", "/" }

REDACTED_KEY      == << "[", "R", "E", "D", "A", "C", "T", "E", "D", "_", "K", "E", "Y", "]" >>
REDACTED_PASSWORD == << "[", "R", "E", "D", "A", "C", "T", "E", "D", "_", "P", "A", "S", "S", "W", "O", "R", "D", "]" >>
REDACTED_SSN      == << "[", "R", "E", "D", "A", "C", "T", "E", "D", "_", "S", "S", "N", "]" >>
REDACTED_CARD     == << "[", "R", "E", "D", "A", "C", "T", "E", "D", "_", "C", "A", "R", "D", "]" >>

\* where a match of sk-[a-zA-Z0-9]{20,} that begins at k ends, 0 if there is none
KeyEnd(s, k) ==
    IF ~HasAt(s, k, KeyPrefix) THEN 0
    ELSE LET n == CHOOSE c \in 0..(Len(s) - k - 2) :
                      /\ \A m \in (k + 3)..(k + 2 + c) : IsAlnum(s[m])
                      /\ k + 2 + c = Len(s) \/ ~IsAlnum(s[k + 3 + c])
         IN  IF n >= MinKeyLen THEN k + 2 + n ELSE 0

\* Bearer [a-zA-Z0-9\-._~+/]+=*
BearerEnd(s, k) ==
    IF ~HasAt(s, k, BearerPrefix) THEN 0
    ELSE LET n == RunOf(s, k + 7, BearerChars)
         IN  IF n = 0 THEN 0
             ELSE k + 6 + n + RunOf(s, k + 7 + n, { "=" })

\* (?i)password\s*[:=]\s*\S+
PasswordEnd(s, k) ==
    IF ~(k + 7 <= Len(s) /\ LowerStr(SubSeq(s, k, k + 7)) = PasswordWord) THEN 0
    ELSE LET p == SkipSpaces(s, k + 8)
         IN  IF p > Len(s) \/ s[p] \notin { ":", "=" } THEN 0
             ELSE LET q == SkipSpaces(s, p + 1)
                      n == RunOfNonSpace(s, q)
                  IN  IF n = 0 THEN 0 ELSE q + n - 1

\* \b\d{3}-\d{2}-\d{4}\b
SsnEnd(s, k) ==
    IF /\ k + 10 <= Len(s)
       /\ \A m \in { 0, 1, 2, 4, 5, 7, 8, 9, 10 } : IsDigit(s[k + m])
       /\ s[k + 3] = "-"
       /\ s[k + 6] = "-"
       /\ WordEdge(s, k - 1)
       /\ WordEdge(s, k + 11)
    THEN k + 10 ELSE 0

\* \b\d{4}[\s\-]\d{4}[\s\-]\d{4}[\s\-]\d{4}\b
CardEnd(s, k) ==
    IF /\ k + 18 <= Len(s)
       /\ \A g \in 0..3 : \A m \in 0..3 : IsDigit(s[k + 5 * g + m])
       /\ \A g \in 1..3 : IsSpace(s[k + 5 * g - 1]) \/ s[k + 5 * g - 1] = "-"
       /\ WordEdge(s, k - 1)
       /\ WordEdge(s, k + 19)
    THEN k + 18 ELSE 0

\* _REGEX_RULES, in the order of the list
REGEX_RULES == << "key", "bearer", "password", "ssn", "card" >>

\* where a match of the pattern of a rule that begins at k ends, 0 if none
RuleEnd(rule, s, k) ==
    CASE rule = "key"      -> KeyEnd(s, k)
      [] rule = "bearer"   -> BearerEnd(s, k)
      [] rule = "password" -> PasswordEnd(s, k)
      [] rule = "ssn"      -> SsnEnd(s, k)
      [] rule = "card"     -> CardEnd(s, k)

\* the replacement of a rule
RuleReplacement(rule) ==
    CASE rule = "key"      -> REDACTED_KEY
      [] rule = "bearer"   -> REDACTED_KEY
      [] rule = "password" -> REDACTED_PASSWORD
      [] rule = "ssn"      -> REDACTED_SSN
      [] rule = "card"     -> REDACTED_CARD

\* pattern.subn(replacement, text) from position k on: the matches are taken
\* from left to right and do not overlap
RECURSIVE Subn(_, _, _)
Subn(rule, s, k) ==
    IF k > Len(s) THEN [text |-> << >>, n |-> 0]
    ELSE LET e == RuleEnd(rule, s, k)
         IN  IF e # 0
             THEN LET rest == Subn(rule, s, e + 1)
                  IN  [text |-> RuleReplacement(rule) \o rest.text, n |-> rest.n + 1]
             ELSE LET rest == Subn(rule, s, k + 1)
                  IN  [text |-> << s[k] >> \o rest.text, n |-> rest.n]

\* the loop of _apply_regex from rule r on: every rule works on the text the
\* rule before it left
RECURSIVE ApplyRules(_, _, _)
ApplyRules(r, text, count) ==
    IF r > Len(REGEX_RULES) THEN [text |-> text, n |-> count]
    ELSE LET res == Subn(REGEX_RULES[r], text, 1)
         IN  ApplyRules(r + 1, res.text, count + res.n)

\* _apply_regex(text)
ApplyRegex(text) == ApplyRules(1, text, 0)

P_clean == << "s", "a", "f", "e", " ", "t", "e", "x", "t", "." >>
P_key == << "k", "e", "y", ":", " ", "s", "k", "-", "a", "b", "c", "1", "2", "3", "d", "e", "f", "4", "5", "6", "g", "h", "i", "7", "8", "9", "j", "k", "l", "0" >>
P_keyShort == << "s", "k", "-", "a", "b", "c", "1", "2", "3", "d", "e", "f", "4", "5", "6", "g", "h", "i", "7", "8", "9", "j" >>
P_keys == << "s", "k", "-", "k", "e", "y", "1", "a", "b", "c", "1", "2", "3", "d", "e", "f", "4", "5", "6", "g", "h", "i", "7", " ", "s", "k", "-", "k", "e", "y", "2", "a", "b", "c", "1", "2", "3", "d", "e", "f", "4", "5", "6", "g", "h", "i", "8" >>
P_bearerKey == << "B", "e", "a", "r", "e", "r", " ", "s", "k", "-", "a", "b", "c", "1", "2", "3", "d", "e", "f", "4", "5", "6", "g", "h", "i", "7", "8", "9", "j", "k", "l", "0", "=", "=" >>
P_passwordSsn == << "P", "a", "s", "s", "W", "o", "r", "d", " ", "=", " ", "1", "2", "3", "-", "4", "5", "-", "6", "7", "8", "9" >>
P_ssn == << "S", "S", "N", " ", "1", "2", "3", "-", "4", "5", "-", "6", "7", "8", "9", ",", " ", "1", "2", "3", "4", "-", "5", "6", "-", "7", "8", "9", "0" >>
P_card == << "4", "1", "1", "1", " ", "1", "1", "1", "1", "-", "1", "1", "1", "1", " ", "1", "1", "1", "1" >>

Paragraphs == { P_clean, P_key, P_keyShort, P_keys, P_bearerKey, P_passwordSsn, P_ssn, P_card }

----------------------------------------------------------------------------
(* References: the pattern of references.py and its inputs *)

HttpWord     == << "h", "t", "t", "p" >>
SchemeEnd    == << ":", "/", "/" >>
WwwPrefix    == << "w", "w", "w", "." >>
WatchHost    == << "y", "o", "u", "t", "u", "b", "e", ".", "c", "o", "m", "/", "w", "a", "t", "c", "h", "?", "v", "=" >>
ShortHost    == << "y", "o", "u", "t", "u", ".", "b", "e", "/" >>

\* the length of a video id
IdLen == 11

\* [\w-]
IsIdChar(c) == IsWord(c) \/ c = "-"

\* the value standing for None
NoId == << >>

\* a match of _YT_RE that begins at k, [last |-> 0] if there is none:
\* https?://(?:www\.)?(?:youtube\.com/watch\?v=|youtu\.be/)([\w-]{11})
YtMatchAt(s, k) ==
    LET none == [last |-> 0, id |-> NoId]
        p1   == k + Len(HttpWord)
        p2   == IF p1 <= Len(s) /\ s[p1] = "s" THEN p1 + 1 ELSE p1
        p3   == p2 + Len(SchemeEnd)
        p4   == IF HasAt(s, p3, WwwPrefix) THEN p3 + Len(WwwPrefix) ELSE p3
        p5   == IF HasAt(s, p4, WatchHost) THEN p4 + Len(WatchHost)
                ELSE IF HasAt(s, p4, ShortHost) THEN p4 + Len(ShortHost)
                ELSE 0
    IN  IF /\ HasAt(s, k, HttpWord)
           /\ HasAt(s, p2, SchemeEnd)
           /\ p5 # 0
           /\ p5 + IdLen - 1 <= Len(s)
           /\ \A m \in p5..(p5 + IdLen - 1) : IsIdChar(s[m])
        THEN [last |-> p5 + IdLen - 1, id |-> SubSeq(s, p5, p5 + IdLen - 1)]
        ELSE none

\* _YT_RE.finditer(s) from position k on: << [url, id], ... >>
RECURSIVE YtFindAll(_, _)
YtFindAll(s, k) ==
    IF k > Len(s) THEN << >>
    ELSE LET m == YtMatchAt(s, k)
         IN  IF m.last # 0
             THEN << [url |-> SubSeq(s, k, m.last), id |-> m.id] >> \o YtFindAll(s, m.last + 1)
             ELSE YtFindAll(s, k + 1)

\* _video_id(url): group 1 of _YT_RE.search(url), or None
RECURSIVE YtSearch(_, _)
YtSearch(s, k) ==
    IF k > Len(s) THEN NoId
    ELSE LET m == YtMatchAt(s, k)
         IN  IF m.last # 0 THEN m.id ELSE YtSearch(s, k + 1)

VideoId(url) == YtSearch(url, 1)

\* a test that lets every video id through
IsNew_NoDedup(vid, seen) == vid # NoId

\* vid and vid not in seen_ids
IsNew(vid, seen) == vid # NoId /\ vid \notin seen

\* every match in every paragraph of every turn, in order
RECURSIVE MatchesOfParagraphs(_)
MatchesOfParagraphs(paras) ==
    IF paras = << >> THEN << >>
    ELSE YtFindAll(Head(paras), 1) \o MatchesOfParagraphs(Tail(paras))

RECURSIVE MatchesOfTurns(_)
MatchesOfTurns(ts) ==
    IF ts = << >> THEN << >>
    ELSE MatchesOfParagraphs(Head(ts).paragraphs) \o MatchesOfTurns(Tail(ts))

\* the loop of extract_youtube_urls over the matches from k on
RECURSIVE FirstOfEachId(_, _, _, _)
FirstOfEachId(ms, k, seen, urls) ==
    IF k > Len(ms) THEN urls
    ELSE IF ms[k].id \notin seen
    THEN FirstOfEachId(ms, k + 1, seen \cup { ms[k].id }, Append(urls, ms[k].url))
    ELSE FirstOfEachId(ms, k + 1, seen, urls)

\* extract_youtube_urls(turns)
ExtractYoutubeUrls(ts) == FirstOfEachId(MatchesOfTurns(ts), 1, { }, << >>)

U_watchA == << "h", "t", "t", "p", "s", ":", "/", "/", "w", "w", "w", ".", "y", "o", "u", "t", "u", "b", "e", ".", "c", "o", "m", "/", "w", "a", "t", "c", "h", "?", "v", "=", "d", "Q", "w", "4", "w", "9", "W", "g", "X", "c", "Q" >>
U_shortA == << "h", "t", "t", "p", ":", "/", "/", "y", "o", "u", "t", "u", ".", "b", "e", "/", "d", "Q", "w", "4", "w", "9", "W", "g", "X", "c", "Q", "?", "t", "=", "4" >>
U_shortB == << "h", "t", "t", "p", "s", ":", "/", "/", "y", "o", "u", "t", "u", ".", "b", "e", "/", "a", "-", "b", "_", "c", "1", "d", "2", "e", "3", "f" >>
U_other == << "h", "t", "t", "p", "s", ":", "/", "/", "e", "x", "a", "m", "p", "l", "e", ".", "c", "o", "m", "/", "y", "o", "u", "t", "u", ".", "b", "e", "/", "x" >>

CliUrls == { U_watchA, U_shortA, U_shortB, U_other }

R_plain == << "n", "o", " ", "l", "i", "n", "k", " ", "h", "e", "r", "e" >>
R_watchA == << "s", "e", "e", " ", "h", "t", "t", "p", "s", ":", "/", "/", "y", "o", "u", "t", "u", "b", "e", ".", "c", "o", "m", "/", "w", "a", "t", "c", "h", "?", "v", "=", "d", "Q", "w", "4", "w", "9", "W", "g", "X", "c", "Q", "&", "t", "=", "1", " ", "o", "k" >>
R_both == << "h", "t", "t", "p", "s", ":", "/", "/", "y", "o", "u", "t", "u", ".", "b", "e", "/", "a", "-", "b", "_", "c", "1", "d", "2", "e", "3", "f", ",", " ", "h", "t", "t", "p", ":", "/", "/", "w", "w", "w", ".", "y", "o", "u", "t", "u", ".", "b", "e", "/", "d", "Q", "w", "4", "w", "9", "W", "g", "X", "c", "Q", "x" >>
R_broken == << "h", "t", "t", "p", "s", ":", "/", "/", "y", "o", "u", "t", "u", ".", "b", "e", "/", "s", "h", "o", "r", "t", " ", "y", "o", "u", "t", "u", "b", "e", ".", "c", "o", "m", "/", "w", "a", "t", "c", "h", "?", "v", "=", "d", "Q", "w", "4", "w", "9", "W", "g", "X", "c", "Q" >>

\* conversations: a turn without a link, and a turn that names two videos, one
\* of them in two paragraphs
RefTurnSet ==
    { [speaker |-> "user", paragraphs |-> << R_plain, R_broken >>, speaker_label |-> "User"],
      [speaker |-> "assistant", paragraphs |-> << R_both, R_watchA >>,
       speaker_label |-> "Assistant"] }

\* resolve_youtube(url): yt-dlp gives a title and a channel, or the URL stands
\* in for the title
ResolveYoutube(url) ==
    { [url |-> url, title |-> << "T" >>, channel |-> "C", source |-> "conversation"],
      [url |-> url, title |-> url, channel |-> "None", source |-> "conversation"] }


----------------------------------------------------------------------------
(* Inputs of the model *)

\* the longest transcript, in lines
MaxLines == 3

L_user      == << PromptGlyph, " ", "h", "i" >>
L_userBlank == << PromptGlyph, " ", " " >>
L_slash     == << PromptGlyph, " ", "/", "x" >>
L_asst      == << BulletGlyph, " ", " ", "o", "k", " " >>
L_asstDash  == << BulletGlyph, " ", "-", "-", "-" >>
L_tool      == << BulletGlyph, " ", "A", "b", "(", ")" >>
L_out       == << " ", CornerGlyph, " ", "o" >>
L_prog      == << SparkleGlyph, " ", "b", " ", "f", "o", "r", " ", "4", "s" >>
L_cont      == << " ", "m", "\t" >>
L_blank     == << >>
L_dash      == << "-", "-", "-", " " >>

LineSet == { L_user, L_userBlank, L_slash, L_asst, L_asstDash, L_tool,
             L_out, L_prog, L_cont, L_blank, L_dash }

RECURSIVE SeqsUpTo(_, _)
SeqsUpTo(S, n) ==
    IF n = 0 THEN { << >> }
    ELSE LET shorter == SeqsUpTo(S, n - 1)
         IN  shorter \cup { Append(q, e) : q \in shorter, e \in S }

\* <<user_label, assistant_label>>: the defaults of parse and a caller's own
LabelPairs == { << "User", "Assistant" >>, << "Alex", "Claude" >> }

----------------------------------------------------------------------------
(* parse: state *)

VARIABLES
    raw_lines,        \* text.splitlines()
    verbose,          \* the verbose argument
    user_label,       \* the user_label argument
    assistant_label,  \* the assistant_label argument
    pc,               \* "pass1", "pass2", "done"; "fault" for an exception
    i,                \* pass 1: index of the next line
    blocks,           \* list of _Block, each [lt, raw_lines]
    current,          \* index into blocks of the current block, 0 for None
    j,                \* pass 2: index of the next block
    turns,            \* list of Turn, each [speaker, paragraphs, speaker_label]
    block_src,        \* history: per block, the line index behind each raw line
    turn_block,       \* history: per Turn, the index of the block it was built from
    second_call,      \* the caller has parsed the same file before, verbose=False
    turns_normal,     \* what that earlier call returned
    blocks_normal,    \* history: the blocks that earlier call built in pass 1
    cline,            \* _classify alone: the line handed to it
    ntok,             \* _classify alone: the number of tokens cline is made of
    clt               \* _classify alone: the LineType returned for cline

inputs == << raw_lines, user_label, assistant_label >>

locals == << i, blocks, current, j, turns, block_src, turn_block >>

caller == << second_call, turns_normal, blocks_normal >>

pvars == << inputs, verbose, pc, locals, caller >>

cvars == << cline, ntok, clt >>

VARIABLES
    plines,           \* _paragraphize alone: the raw_lines handed to it
    pparas            \* _paragraphize alone: the paragraphs returned for plines

rvars == << plines, pparas >>

VARIABLES
    text_head,        \* main: head, the first lines of the file
    turns_arg,        \* main: the turns handed to detect_title
    dpc,              \* "title", "date", "done": where main is
    dk,               \* index into text_head of the line the loop is at
    dpat,             \* detect_date: index into DatePatterns of the loop it is in
    stem,             \* path.stem once it has been read
    mtime,            \* path.stat().st_mtime once it has been read, as a local date
    resolved_title,   \* main: what detect_title returned
    resolved_date     \* main: what detect_date returned

dvars == << text_head, turns_arg, dpc, dk, dpat, stem, mtime, resolved_title,
            resolved_date >>

VARIABLES
    c_args,           \* two calls of parse: per call, its raw_lines and verbose
    c_frame,          \* per call, its pc, i, j and current
    heap,             \* per list pair made at lines 116 and 137, blocks and turns
    c_ret,            \* per call, the list of Turns it returned
    overlapped        \* history: both calls were under way at the same time

kvars == << c_args, c_frame, heap, c_ret, overlapped >>

VARIABLES
    r_turns,          \* redact_turns: the turns handed to it
    turns_in,         \* history: those turns as they were at the call
    use_presidio,     \* redact_turns: the use_presidio argument
    engines,          \* analyzer and anonymizer: "none" or "loaded"
    r_pc,             \* "start", "loop", "done"; "exit" for sys.exit(1)
    r_t,              \* index of the turn the outer loop is at
    r_p,              \* index of the paragraph the inner loop is at
    new_paragraphs,   \* the paragraphs redacted so far of that turn
    redacted_turns,   \* the Turns built so far
    total_regex,      \* the matches of the regex layer so far
    total_entities,   \* the entities Presidio found so far
    all_low_conf,     \* the number of low-confidence items so far
    summary           \* the RedactionSummary returned

redvars == << r_turns, turns_in, use_presidio, engines, r_pc, r_t, r_p, new_paragraphs,
             redacted_turns, total_regex, total_entities, all_low_conf, summary >>

\* collect_references
VARIABLES
    ref_turns,        \* the turns handed to collect_references
    cli_refs,         \* the URLs of the --ref options
    refs,             \* the references collected so far
    seen_ids,         \* the video ids of the references collected so far
    conv_urls,        \* what extract_youtube_urls returned
    ref_pc,           \* "idle", "cli" (first loop), "conv" (second loop), "done"
    ref_k             \* the position of the running loop in its list

refvars == << ref_turns, cli_refs, refs, seen_ids, conv_urls, ref_pc, ref_k >>

\* main of cli.py
VARIABLES
    m_cli,            \* "convo" (src/convo/cli.py) or "convoformat" (src/convoformat/cli.py)
    private,          \* the --private flag
    ref_opts,         \* the --ref options (convo only)
    parsed,           \* what parse returns for the input file
    m_turns,          \* the local turns of main
    references,       \* the local references of main
    stderr,           \* the messages written to stderr
    stdout,           \* the messages written to stdout
    rendered,         \* what _render was called with
    exit_status,      \* Running while main runs, then 0 or 1
    trace,            \* history: the functions main has called, in order
    m_pc              \* the position of main

mvars == << m_cli, private, ref_opts, parsed, m_turns, references, stderr, stdout,
            rendered, exit_status, trace, m_pc >>

\* what lies after parsing in main
evars == << redvars, refvars, mvars >>

\* the variables parse does not touch
ovars == << cvars, rvars, dvars, kvars, evars >>

vars == << pvars, ovars >>

\* parse is not running
ParseIdle ==
    /\ raw_lines = << >>
    /\ verbose = FALSE
    /\ user_label = "User"
    /\ assistant_label = "Assistant"
    /\ pc = "idle"
    /\ i = 1
    /\ blocks = << >>
    /\ current = 0
    /\ j = 1
    /\ turns = << >>
    /\ block_src = << >>
    /\ turn_block = << >>
    /\ second_call = FALSE
    /\ turns_normal = << >>
    /\ blocks_normal = << >>

\* _classify has been handed the empty line
ClassifyIdle ==
    /\ cline = << >>
    /\ ntok = 0
    /\ clt = Classify(cline)

\* _paragraphize has been handed no lines
ReflowIdle ==
    /\ plines = << >>
    /\ pparas = Paragraphize(plines)

\* the two calls of parse that run side by side
Calls == { 1, 2 }

\* no call of parse has been made
TwoIdle ==
    /\ c_args = [p \in Calls |-> [raw_lines |-> << >>, verbose |-> FALSE]]
    /\ c_frame = [p \in Calls |-> [pc |-> "idle", i |-> 1, j |-> 1, current |-> 0]]
    /\ heap = [c \in Calls |-> [blocks |-> << >>, turns |-> << >>]]
    /\ c_ret = [p \in Calls |-> << >>]
    /\ overlapped = FALSE

\* no RedactionSummary has been made
NoSummary == [entity_counts |-> 0, low_confidence_items |-> 0, regex_count |-> 0]

\* redact_turns has not been called
RedactIdle ==
    /\ r_turns = << >>
    /\ turns_in = << >>
    /\ use_presidio = FALSE
    /\ engines = "none"
    /\ r_pc = "idle"
    /\ r_t = 1
    /\ r_p = 1
    /\ new_paragraphs = << >>
    /\ redacted_turns = << >>
    /\ total_regex = 0
    /\ total_entities = 0
    /\ all_low_conf = 0
    /\ summary = NoSummary

\* collect_references has not been called
RefsIdle ==
    /\ ref_turns = << >>
    /\ cli_refs = << >>
    /\ refs = << >>
    /\ seen_ids = { }
    /\ conv_urls = << >>
    /\ ref_pc = "idle"
    /\ ref_k = 1

\* the exit status of a process that has not exited
Running == -1

\* _render has not been called
NotRendered == [called |-> FALSE, turns |-> << >>, references |-> << >>]

\* main has not been called
MainIdle ==
    /\ m_cli = "convo"
    /\ private = FALSE
    /\ ref_opts = << >>
    /\ parsed = << >>
    /\ m_turns = << >>
    /\ references = << >>
    /\ stderr = << >>
    /\ stdout = << >>
    /\ rendered = NotRendered
    /\ exit_status = Running
    /\ trace = << >>
    /\ m_pc = "idle"

\* nothing after parsing is running
ElseIdle == RedactIdle /\ RefsIdle /\ MainIdle

\* main has not come to the detection of title and date
DetectIdle ==
    /\ text_head = << >>
    /\ turns_arg = << >>
    /\ dpc = "idle"
    /\ dk = 1
    /\ dpat = 1
    /\ stem = << >>
    /\ mtime = NoTime
    /\ resolved_title = << >>
    /\ resolved_date = << >>

NOISE_TYPES       == { TOOL_CALL, TOOL_OUTPUT, PROGRESS }
BLOCK_START_TYPES == { USER_TURN, ASST_TURN, TOOL_CALL }

\* the locals of parse on entry
Entry ==
    /\ pc = "pass1"
    /\ i = 1
    /\ blocks = << >>
    /\ current = 0
    /\ j = 1
    /\ turns = << >>
    /\ block_src = << >>
    /\ turn_block = << >>

\* the first call is the one with verbose=False; ParseVerboseToo below makes the
\* call with verbose=True on the same lines and labels
Init ==
    /\ raw_lines \in SeqsUpTo(LineSet, MaxLines)
    /\ verbose = FALSE
    /\ \E lp \in LabelPairs : user_label = lp[1] /\ assistant_label = lp[2]
    /\ Entry
    /\ second_call = FALSE
    /\ turns_normal = << >>
    /\ blocks_normal = << >>
    /\ cline = << >>
    /\ ntok = 0
    /\ clt = Classify(cline)
    /\ ReflowIdle
    /\ DetectIdle
    /\ TwoIdle
    /\ ElseIdle

----------------------------------------------------------------------------
(* parse: pass 1, one action per branch of the loop body *)

\* blocks.append(current)
AppendBlock(bs, b) == Append(bs, b)

\* a block that keeps the whole opening line, marker included
NewBlock_KeepsMarker(lt, line) == [lt |-> lt, raw_lines |-> << line >>]

\* a block made without its seed, raw_lines left to the default factory
NewBlock_NoSeed(lt, line) == [lt |-> lt, raw_lines |-> << >>]

\* the block an opening line starts: the marker and its space are cut off
NewBlock(lt, line) == [lt |-> lt, raw_lines |-> << DropFirst(line, 2) >>]

\* a guard that forgets the type of the current block
AttachesNoise_AnyBlock(bs, cur) == cur # 0

\* the guard of the TOOL_OUTPUT / PROGRESS branch
AttachesNoise(bs, cur) == cur # 0 /\ bs[cur].lt \in NOISE_TYPES

\* a guard that forgets that there may be no current block
AttachesContinuation_NoNoneCheck(bs, cur) == TRUE

\* a guard that lets text continue a speaker's block only
AttachesContinuation_SpeakerOnly(bs, cur) == cur # 0 /\ bs[cur].lt \notin NOISE_TYPES

\* a guard that lets text continue a tool call only
AttachesContinuation_ToolCallOnly(bs, cur) == cur # 0 /\ bs[cur].lt = TOOL_CALL

\* the guard of the CONTINUATION branch
AttachesContinuation(bs, cur) == cur # 0

Pass1Open ==
    /\ pc = "pass1"
    /\ i <= Len(raw_lines)
    /\ Classify(raw_lines[i]) \in BLOCK_START_TYPES
    /\ blocks' = AppendBlock(blocks, NewBlock(Classify(raw_lines[i]), raw_lines[i]))
    /\ current' = Len(blocks')
    /\ block_src' = AppendBlock(block_src, << i >>)
    /\ i' = i + 1
    /\ UNCHANGED << ovars, inputs, verbose, caller, pc, j, turns, turn_block >>

\* current.raw_lines.append(line); on None it raises AttributeError
AppendToCurrent ==
    IF current = 0
    THEN /\ pc' = "fault"
         /\ UNCHANGED << i, blocks, block_src >>
    ELSE /\ blocks' = [blocks EXCEPT ![current].raw_lines = Append(@, raw_lines[i])]
         /\ block_src' = [block_src EXCEPT ![current] = Append(@, i)]
         /\ i' = i + 1
         /\ pc' = pc

DropLine ==
    /\ i' = i + 1
    /\ UNCHANGED << pc, blocks, block_src >>

Pass1Noise ==
    /\ pc = "pass1"
    /\ i <= Len(raw_lines)
    /\ Classify(raw_lines[i]) \in { TOOL_OUTPUT, PROGRESS }
    /\ IF AttachesNoise(blocks, current) THEN AppendToCurrent ELSE DropLine
    /\ UNCHANGED << ovars, inputs, verbose, caller, current, j, turns, turn_block >>

Pass1Continuation ==
    /\ pc = "pass1"
    /\ i <= Len(raw_lines)
    /\ Classify(raw_lines[i]) \notin BLOCK_START_TYPES \cup { TOOL_OUTPUT, PROGRESS }
    /\ IF AttachesContinuation(blocks, current) THEN AppendToCurrent ELSE DropLine
    /\ UNCHANGED << ovars, inputs, verbose, caller, current, j, turns, turn_block >>

Pass1End ==
    /\ pc = "pass1"
    /\ i > Len(raw_lines)
    /\ pc' = "pass2"
    /\ UNCHANGED << ovars, inputs, verbose, caller, locals >>

----------------------------------------------------------------------------
(* parse: pass 2, one action per way through the loop body *)

\* no block is passed over
Skipped_Never(block, vb) == FALSE

\* the test of the flag the wrong way round
Skipped_FlagInverted(block, vb) == block.lt \in NOISE_TYPES /\ vb

\* the block is passed over by the `continue`
Skipped(block, vb) == block.lt \in NOISE_TYPES /\ ~vb

\* a tool call taken for the user's
SpeakerOf_ToolCallIsUser(block) ==
    IF block.lt \in { USER_TURN, TOOL_CALL } THEN "user" ELSE "assistant"

\* "user" if block.lt == USER_TURN else "assistant"
SpeakerOf(block) == IF block.lt = USER_TURN THEN "user" ELSE "assistant"

\* the two labels the wrong way round
LabelOf_Swapped(speaker, ul, al) == IF speaker = "user" THEN al ELSE ul

LabelOf(speaker, ul, al) == IF speaker = "user" THEN ul ELSE al

\* turns.insert(0, ...) in place of turns.append(...)
AppendTurn_AtFront(ts, t) == << t >> \o ts

\* turns.append(Turn(...))
AppendTurn(ts, t) == Append(ts, t)

MakeTurn(block, ul, al) ==
    [ speaker       |-> SpeakerOf(block),
      paragraphs    |-> Paragraphize(block.raw_lines),
      speaker_label |-> LabelOf(SpeakerOf(block), ul, al) ]

Pass2Skip ==
    /\ pc = "pass2"
    /\ j <= Len(blocks)
    /\ Skipped(blocks[j], verbose)
    /\ j' = j + 1
    /\ UNCHANGED << ovars, inputs, verbose, caller, pc, i, blocks, current, turns,
                    block_src, turn_block >>

Pass2Turn ==
    /\ pc = "pass2"
    /\ j <= Len(blocks)
    /\ ~Skipped(blocks[j], verbose)
    /\ IF Paragraphize(blocks[j].raw_lines) # << >>
       THEN /\ turns' = AppendTurn(turns, MakeTurn(blocks[j], user_label, assistant_label))
            /\ turn_block' = AppendTurn(turn_block, j)
       ELSE UNCHANGED << turns, turn_block >>
    /\ j' = j + 1
    /\ UNCHANGED << ovars, inputs, verbose, caller, pc, i, blocks, current, block_src >>

Pass2End ==
    /\ pc = "pass2"
    /\ j > Len(blocks)
    /\ pc' = "done"
    /\ UNCHANGED << ovars, inputs, verbose, caller, locals >>

----------------------------------------------------------------------------
(* the caller that parses one file twice, verbose=False and then verbose=True *)

ParseVerboseToo ==
    /\ pc = "done"
    /\ ~verbose
    /\ ~second_call
    /\ turns_normal' = turns
    /\ blocks_normal' = blocks
    /\ second_call' = TRUE
    /\ verbose' = TRUE
    /\ pc' = "pass1"
    /\ i' = 1
    /\ blocks' = << >>
    /\ current' = 0
    /\ j' = 1
    /\ turns' = << >>
    /\ block_src' = << >>
    /\ turn_block' = << >>
    /\ UNCHANGED << ovars, inputs >>

Next ==
    \/ Pass1Open
    \/ Pass1Noise
    \/ Pass1Continuation
    \/ Pass1End
    \/ Pass2Skip
    \/ Pass2Turn
    \/ Pass2End
    \/ ParseVerboseToo

Spec == Init /\ [][Next]_vars

----------------------------------------------------------------------------
(* _classify alone, on lines built from tokens *)

\* the longest line, in tokens
MaxTokens == 4

Tokens == { PromptMarker, BulletMarker, << SparkleGlyph, " " >>, << CornerGlyph >>,
            << "a" >>, << "B" >>, << "4" >>, << "_" >>, << " " >>, << "\t" >>, << "/" >>,
            << "(" >>, ReadWord, SearchedWord, ForWord,
            << "C", "t", "r", "l", "+", "O" >> }

\* parse is not running
InitClassify ==
    /\ raw_lines = << >>
    /\ verbose = FALSE
    /\ user_label = "User"
    /\ assistant_label = "Assistant"
    /\ pc = "idle"
    /\ i = 1
    /\ blocks = << >>
    /\ current = 0
    /\ j = 1
    /\ turns = << >>
    /\ block_src = << >>
    /\ turn_block = << >>
    /\ second_call = FALSE
    /\ turns_normal = << >>
    /\ blocks_normal = << >>
    /\ cline = << >>
    /\ ntok = 0
    /\ clt = Classify(cline)
    /\ ReflowIdle
    /\ DetectIdle
    /\ TwoIdle
    /\ ElseIdle

\* a longer line is classified
ClassifyLine ==
    /\ ntok < MaxTokens
    /\ \E t \in Tokens : cline' = cline \o t
    /\ ntok' = ntok + 1
    /\ clt' = Classify(cline')
    /\ UNCHANGED << pvars, rvars, dvars, kvars, evars >>

SpecClassify == InitClassify /\ [][ClassifyLine]_vars

----------------------------------------------------------------------------
(* _paragraphize alone, on lists of raw lines *)

\* the longest list of raw lines
MaxRawLines == 4

\* blank lines, the two spellings of a thematic break, lines of text with and
\* without outer whitespace, and a line of four dashes, which is text
ReflowLines == { << >>, << " " >>, Dashes, << " " >> \o Dashes \o << "\t" >>,
                 << "a" >>, << " ", "b", " " >>, << "a", " ", "b" >>,
                 << "-", "-", "-", "-" >> }

InitReflow ==
    /\ ParseIdle
    /\ ClassifyIdle
    /\ ReflowIdle
    /\ DetectIdle
    /\ TwoIdle
    /\ ElseIdle

\* a list one line longer is reflowed
ReflowLine ==
    /\ Len(plines) < MaxRawLines
    /\ \E l \in ReflowLines : plines' = Append(plines, l)
    /\ pparas' = Paragraphize(plines')
    /\ UNCHANGED << pvars, cvars, dvars, kvars, evars >>

SpecReflow == InitReflow /\ [][ReflowLine]_vars

----------------------------------------------------------------------------
(* main: detect_title and then detect_date on the same head, one action per
   way through a loop body *)

InitDetect ==
    /\ ParseIdle
    /\ ClassifyIdle
    /\ ReflowIdle
    /\ TwoIdle
    /\ ElseIdle
    /\ text_head \in SeqsUpTo(HeadLines, MaxHead)
    /\ turns_arg \in TurnsArgs
    /\ dpc = "title"
    /\ dk = 1
    /\ dpat = 1
    /\ stem = << >>
    /\ mtime = NoTime
    /\ resolved_title = << >>
    /\ resolved_date = << >>

\* what no action of main touches
dframe == << pvars, cvars, rvars, kvars, evars, text_head, turns_arg >>

\* detect_title: the line is a heading, its text is returned
TitleFound ==
    /\ dpc = "title"
    /\ dk <= Len(text_head)
    /\ TitleMatch(Strip(text_head[dk]))
    /\ resolved_title' = Strip(TitleGroup(Strip(text_head[dk])))
    /\ dpc' = "date"
    /\ dk' = 1
    /\ UNCHANGED << dframe, dpat, stem, mtime, resolved_date >>

\* detect_title: the line is no heading
TitleNext ==
    /\ dpc = "title"
    /\ dk <= Len(text_head)
    /\ ~TitleMatch(Strip(text_head[dk]))
    /\ dk' = dk + 1
    /\ UNCHANGED << dframe, dpc, dpat, stem, mtime, resolved_title, resolved_date >>

\* detect_title: no line was a heading, the stem is returned title-cased
TitleFallback ==
    /\ dpc = "title"
    /\ dk > Len(text_head)
    /\ \E st \in Stems : stem' = st
    /\ resolved_title' = Title(ReplaceChar(ReplaceChar(stem', "_", " "), "-", " "))
    /\ dpc' = "date"
    /\ dk' = 1
    /\ UNCHANGED << dframe, dpat, mtime, resolved_date >>

\* detect_date: the pattern of this loop is found in the line
DateFound ==
    /\ dpc = "date"
    /\ dpat <= Len(DatePatterns)
    /\ dk <= Len(text_head)
    /\ DateSearch(DatePatterns[dpat], text_head[dk]) # NoMatch
    /\ resolved_date' = DateSearch(DatePatterns[dpat], text_head[dk])
    /\ dpc' = "done"
    /\ UNCHANGED << dframe, dk, dpat, stem, mtime, resolved_title >>

\* detect_date: the pattern of this loop is not in the line
DateNext ==
    /\ dpc = "date"
    /\ dpat <= Len(DatePatterns)
    /\ dk <= Len(text_head)
    /\ DateSearch(DatePatterns[dpat], text_head[dk]) = NoMatch
    /\ dk' = dk + 1
    /\ UNCHANGED << dframe, dpc, dpat, stem, mtime, resolved_title, resolved_date >>

\* detect_date: a loop ends without a match
DateLoopEnd ==
    /\ dpc = "date"
    /\ dpat <= Len(DatePatterns)
    /\ dk > Len(text_head)
    /\ dpat' = dpat + 1
    /\ dk' = 1
    /\ UNCHANGED << dframe, dpc, stem, mtime, resolved_title, resolved_date >>

\* detect_date: both loops ended without a match, the mtime is returned
DateFallback ==
    /\ dpc = "date"
    /\ dpat > Len(DatePatterns)
    /\ \E t \in Mtimes : mtime' = t
    /\ resolved_date' = FormatDate(mtime')
    /\ dpc' = "done"
    /\ UNCHANGED << dframe, dk, dpat, stem, resolved_title >>

NextDetect ==
    \/ TitleFound
    \/ TitleNext
    \/ TitleFallback
    \/ DateFound
    \/ DateNext
    \/ DateLoopEnd
    \/ DateFallback

SpecDetect == InitDetect /\ [][NextDetect]_vars

----------------------------------------------------------------------------
(* two calls of parse, each on its own lines, their steps interleaved *)

\* the longest transcript of a call
MaxCallLines == 2

CallLines == { L_user, L_tool, L_cont }

\* one pair of lists for both calls, as if made once for the module
ListsOf_Shared(p) == 1

\* the lists a call works on: lines 116 and 137 make new ones in every call
ListsOf(p) == p

InitTwo ==
    /\ ParseIdle
    /\ ClassifyIdle
    /\ ReflowIdle
    /\ DetectIdle
    /\ ElseIdle
    /\ c_args \in [Calls -> [raw_lines : SeqsUpTo(CallLines, MaxCallLines),
                              verbose : BOOLEAN]]
    /\ c_frame = [p \in Calls |-> [pc |-> "pass1", i |-> 1, j |-> 1, current |-> 0]]
    /\ heap = [c \in Calls |-> [blocks |-> << >>, turns |-> << >>]]
    /\ c_ret = [p \in Calls |-> << >>]
    /\ overlapped = FALSE

\* call p has taken a step and has not returned
UnderWay(p) ==
    /\ c_frame[p].pc \in { "pass1", "pass2" }
    /\ c_frame[p].i > 1 \/ c_frame[p].pc = "pass2"

\* what every step of a call leaves alone, and the history
TwoFrame(p) ==
    /\ overlapped' = (overlapped \/ \A q \in Calls : UnderWay(q)')
    /\ UNCHANGED << pvars, cvars, rvars, dvars, evars, c_args >>

TwoPass1Open(p) ==
    LET f    == c_frame[p]
        line == c_args[p].raw_lines[f.i]
    IN  /\ f.pc = "pass1"
        /\ f.i <= Len(c_args[p].raw_lines)
        /\ Classify(line) \in BLOCK_START_TYPES
        /\ heap' = [heap EXCEPT ![ListsOf(p)].blocks =
                                  AppendBlock(@, NewBlock(Classify(line), line))]
        /\ c_frame' = [c_frame EXCEPT ![p].current = Len(heap'[ListsOf(p)].blocks),
                                      ![p].i = @ + 1]
        /\ UNCHANGED c_ret
        /\ TwoFrame(p)

TwoPass1Other(p) ==
    LET f    == c_frame[p]
        line == c_args[p].raw_lines[f.i]
        bs   == heap[ListsOf(p)].blocks
    IN  /\ f.pc = "pass1"
        /\ f.i <= Len(c_args[p].raw_lines)
        /\ Classify(line) \notin BLOCK_START_TYPES
        /\ IF \/ /\ Classify(line) \in { TOOL_OUTPUT, PROGRESS }
                 /\ AttachesNoise(bs, f.current)
              \/ /\ Classify(line) \notin { TOOL_OUTPUT, PROGRESS }
                 /\ AttachesContinuation(bs, f.current)
           THEN heap' = [heap EXCEPT ![ListsOf(p)].blocks[f.current].raw_lines =
                                        Append(@, line)]
           ELSE heap' = heap
        /\ c_frame' = [c_frame EXCEPT ![p].i = @ + 1]
        /\ UNCHANGED c_ret
        /\ TwoFrame(p)

TwoPass1End(p) ==
    /\ c_frame[p].pc = "pass1"
    /\ c_frame[p].i > Len(c_args[p].raw_lines)
    /\ c_frame' = [c_frame EXCEPT ![p].pc = "pass2"]
    /\ UNCHANGED << heap, c_ret >>
    /\ TwoFrame(p)

TwoPass2Block(p) ==
    LET f  == c_frame[p]
        bs == heap[ListsOf(p)].blocks
    IN  /\ f.pc = "pass2"
        /\ f.j <= Len(bs)
        /\ IF ~Skipped(bs[f.j], c_args[p].verbose)
              /\ Paragraphize(bs[f.j].raw_lines) # << >>
           THEN heap' = [heap EXCEPT ![ListsOf(p)].turns =
                            AppendTurn(@, MakeTurn(bs[f.j], "User", "Assistant"))]
           ELSE heap' = heap
        /\ c_frame' = [c_frame EXCEPT ![p].j = @ + 1]
        /\ UNCHANGED c_ret
        /\ TwoFrame(p)

TwoPass2End(p) ==
    /\ c_frame[p].pc = "pass2"
    /\ c_frame[p].j > Len(heap[ListsOf(p)].blocks)
    /\ c_frame' = [c_frame EXCEPT ![p].pc = "done"]
    /\ c_ret' = [c_ret EXCEPT ![p] = heap[ListsOf(p)].turns]
    /\ UNCHANGED heap
    /\ TwoFrame(p)

NextTwo ==
    \E p \in Calls :
        \/ TwoPass1Open(p)
        \/ TwoPass1Other(p)
        \/ TwoPass1End(p)
        \/ TwoPass2Block(p)
        \/ TwoPass2End(p)

SpecTwo == InitTwo /\ [][NextTwo]_vars

----------------------------------------------------------------------------
(* redact_turns, one action per way through a loop body *)

\* the longest list of turns handed to redact_turns
MaxTurns == 2

NAME == << "[", "N", "A", "M", "E", "]" >>

\* what _apply_presidio may return for a paragraph: nothing found, or one
\* entity of low confidence replaced
PresidioOutcomes(para) ==
    { [text |-> para, entities |-> 0, low_conf |-> 0],
      [text |-> NAME, entities |-> 1, low_conf |-> 1] }

\* Turns without paragraphs, with one and with two; the two speakers; a label
\* of the caller's
TurnSet ==
    { [speaker |-> "user", paragraphs |-> << >>, speaker_label |-> "User"],
      [speaker |-> "user", paragraphs |-> << P_clean >>, speaker_label |-> "Alex"],
      [speaker |-> "assistant", paragraphs |-> << P_key, P_keyShort >>,
       speaker_label |-> "Assistant"],
      [speaker |-> "user", paragraphs |-> << P_keys, P_bearerKey >>,
       speaker_label |-> "User"],
      [speaker |-> "assistant", paragraphs |-> << P_passwordSsn, P_ssn >>,
       speaker_label |-> "Assistant"],
      [speaker |-> "assistant", paragraphs |-> << P_card >>,
       speaker_label |-> "Claude"] }

InitRedact ==
    /\ ParseIdle
    /\ ClassifyIdle
    /\ ReflowIdle
    /\ DetectIdle
    /\ TwoIdle
    /\ RefsIdle
    /\ MainIdle
    /\ r_turns \in SeqsUpTo(TurnSet, MaxTurns)
    /\ turns_in = r_turns
    /\ use_presidio \in BOOLEAN
    /\ engines = "none"
    /\ r_pc = "start"
    /\ r_t = 1
    /\ r_p = 1
    /\ new_paragraphs = << >>
    /\ redacted_turns = << >>
    /\ total_regex = 0
    /\ total_entities = 0
    /\ all_low_conf = 0
    /\ summary = NoSummary

\* what no action of redact_turns touches
rframe == << pvars, cvars, rvars, dvars, kvars, refvars, mvars, r_turns, turns_in,
             use_presidio >>

\* use_presidio is false: no engine is loaded
RedactBegin ==
    /\ r_pc = "start"
    /\ ~use_presidio
    /\ r_pc' = "loop"
    /\ UNCHANGED << rframe, engines, r_t, r_p, new_paragraphs, redacted_turns,
                    total_regex, total_entities, all_low_conf, summary >>

\* _load_presidio_engines returns the two engines
LoadPresidio ==
    /\ r_pc = "start"
    /\ use_presidio
    /\ engines' = "loaded"
    /\ r_pc' = "loop"
    /\ UNCHANGED << rframe, r_t, r_p, new_paragraphs, redacted_turns,
                    total_regex, total_entities, all_low_conf, summary >>

\* _load_presidio_engines: the extra is not installed, sys.exit(1)
PresidioMissing ==
    /\ r_pc = "start"
    /\ use_presidio
    /\ r_pc' = "exit"
    /\ UNCHANGED << rframe, engines, r_t, r_p, new_paragraphs, redacted_turns,
                    total_regex, total_entities, all_low_conf, summary >>

\* total_regex = n, the count so far forgotten
AddCount_Overwrite(total, n) == n

\* total_regex += n
AddCount(total, n) == total + n

\* the body of the inner loop
RedactParagraph ==
    /\ r_pc = "loop"
    /\ r_t <= Len(r_turns)
    /\ r_p <= Len(r_turns[r_t].paragraphs)
    /\ LET res == ApplyRegex(r_turns[r_t].paragraphs[r_p])
       IN  /\ total_regex' = AddCount(total_regex, res.n)
           /\ IF use_presidio
              THEN \E o \in PresidioOutcomes(res.text) :
                      /\ new_paragraphs' = Append(new_paragraphs, o.text)
                      /\ total_entities' = total_entities + o.entities
                      /\ all_low_conf' = all_low_conf + o.low_conf
              ELSE /\ new_paragraphs' = Append(new_paragraphs, res.text)
                   /\ UNCHANGED << total_entities, all_low_conf >>
    /\ r_p' = r_p + 1
    /\ UNCHANGED << rframe, engines, r_pc, r_t, redacted_turns, summary >>

\* the inner loop is over: redacted_turns.append(Turn(...))
RedactTurnEnd ==
    /\ r_pc = "loop"
    /\ r_t <= Len(r_turns)
    /\ r_p > Len(r_turns[r_t].paragraphs)
    /\ redacted_turns' = Append(redacted_turns,
                                [ speaker       |-> r_turns[r_t].speaker,
                                  paragraphs    |-> new_paragraphs,
                                  speaker_label |-> r_turns[r_t].speaker_label ])
    /\ new_paragraphs' = << >>
    /\ r_t' = r_t + 1
    /\ r_p' = 1
    /\ UNCHANGED << rframe, engines, r_pc, total_regex, total_entities, all_low_conf,
                    summary >>

\* the outer loop is over: the summary is made and both are returned
RedactReturn ==
    /\ r_pc = "loop"
    /\ r_t > Len(r_turns)
    /\ summary' = [ entity_counts        |-> total_entities,
                    low_confidence_items |-> all_low_conf,
                    regex_count          |-> total_regex ]
    /\ r_pc' = "done"
    /\ UNCHANGED << rframe, engines, r_t, r_p, new_paragraphs, redacted_turns,
                    total_regex, total_entities, all_low_conf >>

NextRedact ==
    \/ RedactBegin
    \/ LoadPresidio
    \/ PresidioMissing
    \/ RedactParagraph
    \/ RedactTurnEnd
    \/ RedactReturn

SpecRedact == InitRedact /\ [][NextRedact]_vars

----------------------------------------------------------------------------
(* collect_references, one action per way through a loop body *)

\* the longest list of --ref options and the longest list of turns
MaxRefs == 2

InitRefs ==
    /\ ParseIdle
    /\ ClassifyIdle
    /\ ReflowIdle
    /\ DetectIdle
    /\ TwoIdle
    /\ RedactIdle
    /\ MainIdle
    /\ ref_turns \in SeqsUpTo(RefTurnSet, MaxRefs)
    /\ cli_refs \in SeqsUpTo(CliUrls, MaxRefs)
    /\ refs = << >>
    /\ seen_ids = { }
    /\ conv_urls = << >>
    /\ ref_pc = "cli"
    /\ ref_k = 1

\* what no action of collect_references touches
fframe == << pvars, cvars, rvars, dvars, kvars, redvars, mvars, ref_turns, cli_refs >>

\* a --ref URL with a video id not seen yet
CliYoutube ==
    /\ ref_pc = "cli"
    /\ ref_k <= Len(cli_refs)
    /\ LET url == cli_refs[ref_k]
           vid == VideoId(url)
       IN  /\ IsNew(vid, seen_ids)
           /\ seen_ids' = seen_ids \cup { vid }
           /\ \E ref \in ResolveYoutube(url) :
                  refs' = Append(refs, [ref EXCEPT !.source = "cli"])
    /\ ref_k' = ref_k + 1
    /\ UNCHANGED << conv_urls, ref_pc, fframe >>

\* a --ref URL without a video id
CliOther ==
    /\ ref_pc = "cli"
    /\ ref_k <= Len(cli_refs)
    /\ LET url == cli_refs[ref_k]
           vid == VideoId(url)
       IN  /\ ~IsNew(vid, seen_ids)
           /\ vid = NoId
           /\ refs' = Append(refs, [url |-> url, title |-> url, channel |-> "None",
                                    source |-> "cli"])
    /\ ref_k' = ref_k + 1
    /\ UNCHANGED << seen_ids, conv_urls, ref_pc, fframe >>

\* a --ref URL whose video id was seen: neither branch is taken
CliSeen ==
    /\ ref_pc = "cli"
    /\ ref_k <= Len(cli_refs)
    /\ LET vid == VideoId(cli_refs[ref_k])
       IN  /\ ~IsNew(vid, seen_ids)
           /\ vid # NoId
    /\ ref_k' = ref_k + 1
    /\ UNCHANGED << refs, seen_ids, conv_urls, ref_pc, fframe >>

\* the first loop is over: extract_youtube_urls(turns)
CliLoopEnd ==
    /\ ref_pc = "cli"
    /\ ref_k > Len(cli_refs)
    /\ conv_urls' = ExtractYoutubeUrls(ref_turns)
    /\ ref_pc' = "conv"
    /\ ref_k' = 1
    /\ UNCHANGED << refs, seen_ids, fframe >>

\* a URL of the conversation with a video id not seen yet
ConvNew ==
    /\ ref_pc = "conv"
    /\ ref_k <= Len(conv_urls)
    /\ LET url == conv_urls[ref_k]
           vid == VideoId(url)
       IN  /\ IsNew(vid, seen_ids)
           /\ seen_ids' = seen_ids \cup { vid }
           /\ \E ref \in ResolveYoutube(url) :
                  refs' = Append(refs, [ref EXCEPT !.source = "conversation"])
    /\ ref_k' = ref_k + 1
    /\ UNCHANGED << conv_urls, ref_pc, fframe >>

\* a URL of the conversation whose video id was seen
ConvSeen ==
    /\ ref_pc = "conv"
    /\ ref_k <= Len(conv_urls)
    /\ ~IsNew(VideoId(conv_urls[ref_k]), seen_ids)
    /\ ref_k' = ref_k + 1
    /\ UNCHANGED << refs, seen_ids, conv_urls, ref_pc, fframe >>

\* return refs
RefsReturn ==
    /\ ref_pc = "conv"
    /\ ref_k > Len(conv_urls)
    /\ ref_pc' = "done"
    /\ UNCHANGED << refs, seen_ids, conv_urls, ref_k, fframe >>

NextRefs ==
    \/ CliYoutube
    \/ CliOther
    \/ CliSeen
    \/ CliLoopEnd
    \/ ConvNew
    \/ ConvSeen
    \/ RefsReturn

SpecRefs == InitRefs /\ [][NextRefs]_vars

----------------------------------------------------------------------------
(* main of the two command lines, one action per statement that calls out,
   prints or exits; redact_turns and collect_references run as above *)

\* the longest list of turns parse returns
MaxMainTurns == 2

\* the Turns parse may return: each has a paragraph, one is a link
MainTurnSet ==
    { [speaker |-> "user", paragraphs |-> << P_key >>, speaker_label |-> "User"],
      [speaker |-> "assistant", paragraphs |-> << U_shortA, P_ssn >>,
       speaker_label |-> "Assistant"] }

\* the --ref options: none, or a page and one video in two spellings
RefOptions == { << >>, << U_other, U_watchA, U_shortA >> }

NO_TURNS == [text |-> "No conversation turns found in the input file.", n |-> 0, low |-> 0]

GENERATING == [text |-> "Generating title with local model...", n |-> 0, low |-> 0]

\* the message of print_privacy_warning
PrivacyWarning(sm) ==
    [text |-> "Privacy mode active (--private)",
     n    |-> sm.entity_counts + sm.regex_count,
     low  |-> sm.low_confidence_items]

Resolved(n) == [text |-> "Resolved reference(s)", n |-> n, low |-> 0]

WRITTEN == [text |-> "Written to", n |-> 0, low |-> 0]

\* a test that never sees an empty list
NoTurns_Never(ts) == FALSE

\* not turns
NoTurns(ts) == ts = << >>

\* turns stays bound to the list that went into redact_turns
Rebind_KeepsOld(old, new) == old

\* turns, summary = redact_turns(turns, use_presidio=True)
Rebind(old, new) == new

InitMain ==
    /\ ParseIdle
    /\ ClassifyIdle
    /\ ReflowIdle
    /\ DetectIdle
    /\ TwoIdle
    /\ RedactIdle
    /\ RefsIdle
    /\ m_cli \in { "convo", "convoformat" }
    /\ private \in BOOLEAN
    /\ ref_opts \in RefOptions
    /\ m_cli = "convoformat" => ref_opts = << >>
    /\ parsed \in SeqsUpTo(MainTurnSet, MaxMainTurns)
    /\ m_turns = << >>
    /\ references = << >>
    /\ stderr = << >>
    /\ stdout = << >>
    /\ rendered = NotRendered
    /\ exit_status = Running
    /\ trace = << >>
    /\ m_pc = "start"

\* what no action of main touches
mframe == << pvars, cvars, rvars, dvars, kvars, m_cli, private, ref_opts, parsed >>

\* turns = parse(input_file, ...)
MainParse ==
    /\ m_pc = "start"
    /\ m_turns' = parsed
    /\ trace' = Append(trace, "parse")
    /\ m_pc' = "parsed"
    /\ UNCHANGED << mframe, redvars, refvars, references, stderr, stdout, rendered,
                    exit_status >>

\* if not turns: the message and sys.exit(1)
MainNoTurns ==
    /\ m_pc = "parsed"
    /\ NoTurns(m_turns)
    /\ stderr' = Append(stderr, NO_TURNS)
    /\ exit_status' = 1
    /\ m_pc' = "exited"
    /\ UNCHANGED << mframe, redvars, refvars, m_turns, references, stdout, rendered,
                    trace >>

\* resolved_title and resolved_date
MainDetect ==
    /\ m_pc = "parsed"
    /\ ~NoTurns(m_turns)
    /\ trace' = Append(trace, "detect")
    /\ m_pc' = IF m_cli = "convo" THEN "detected" ELSE "titled"
    /\ UNCHANGED << mframe, redvars, refvars, m_turns, references, stderr, stdout,
                    rendered, exit_status >>

\* convo: the title is the stem's and --no-ai is not given
MainGenerateTitle ==
    /\ m_pc = "detected"
    /\ stderr' = Append(stderr, GENERATING)
    /\ trace' = Append(trace, "generate_title")
    /\ m_pc' = "titled"
    /\ UNCHANGED << mframe, redvars, refvars, m_turns, references, stdout, rendered,
                    exit_status >>

\* convo: the title is a heading's or an option's, or --no-ai is given
MainKeepTitle ==
    /\ m_pc = "detected"
    /\ m_pc' = "titled"
    /\ UNCHANGED << mframe, redvars, refvars, m_turns, references, stderr, stdout,
                    rendered, exit_status, trace >>

\* if private: redact_turns(turns, use_presidio=True) is entered
MainRedact ==
    /\ m_pc = "titled"
    /\ private
    /\ r_turns' = m_turns
    /\ turns_in' = m_turns
    /\ use_presidio' = TRUE
    /\ r_pc' = "start"
    /\ trace' = Append(trace, "redact_turns")
    /\ m_pc' = "redacting"
    /\ UNCHANGED << mframe, refvars, engines, r_t, r_p, new_paragraphs, redacted_turns,
                    total_regex, total_entities, all_low_conf, summary, m_turns,
                    references, stderr, stdout, rendered, exit_status >>

\* redact_turns has returned: turns is rebound
MainRedacted ==
    /\ m_pc = "redacting"
    /\ r_pc = "done"
    /\ m_turns' = Rebind(m_turns, redacted_turns)
    /\ m_pc' = "warn"
    /\ UNCHANGED << mframe, redvars, refvars, references, stderr, stdout, rendered,
                    exit_status, trace >>

\* print_privacy_warning(summary)
MainWarn ==
    /\ m_pc = "warn"
    /\ stderr' = Append(stderr, PrivacyWarning(summary))
    /\ trace' = Append(trace, "print_privacy_warning")
    /\ m_pc' = "redacted"
    /\ UNCHANGED << mframe, redvars, refvars, m_turns, references, stdout, rendered,
                    exit_status >>

\* --private is not given
MainNotPrivate ==
    /\ m_pc = "titled"
    /\ ~private
    /\ m_pc' = "redacted"
    /\ UNCHANGED << mframe, redvars, refvars, m_turns, references, stderr, stdout,
                    rendered, exit_status, trace >>

\* convo: collect_references(turns, list(refs) if refs else None) is entered
MainCollect ==
    /\ m_pc = "redacted"
    /\ m_cli = "convo"
    /\ ref_turns' = m_turns
    /\ cli_refs' = ref_opts
    /\ ref_pc' = "cli"
    /\ trace' = Append(trace, "collect_references")
    /\ m_pc' = "collecting"
    /\ UNCHANGED << mframe, redvars, refs, seen_ids, conv_urls, ref_k, m_turns,
                    references, stderr, stdout, rendered, exit_status >>

\* collect_references has returned; the count is reported if there is any
MainCollected ==
    /\ m_pc = "collecting"
    /\ ref_pc = "done"
    /\ references' = refs
    /\ stderr' = IF refs # << >> THEN Append(stderr, Resolved(Len(refs))) ELSE stderr
    /\ m_pc' = "collected"
    /\ UNCHANGED << mframe, redvars, refvars, m_turns, stdout, rendered, exit_status,
                    trace >>

\* convoformat collects no references
MainNoReferences ==
    /\ m_pc = "redacted"
    /\ m_cli = "convoformat"
    /\ m_pc' = "collected"
    /\ UNCHANGED << mframe, redvars, refvars, m_turns, references, stderr, stdout,
                    rendered, exit_status, trace >>

\* _render(fmt=fmt, turns=turns, ..., references=references or None)
MainRender ==
    /\ m_pc = "collected"
    /\ rendered' = [called |-> TRUE, turns |-> m_turns, references |-> references]
    /\ trace' = Append(trace, "_render")
    /\ m_pc' = "rendered"
    /\ UNCHANGED << mframe, redvars, refvars, m_turns, references, stderr, stdout,
                    exit_status >>

\* the last line of main
MainWritten ==
    /\ m_pc = "rendered"
    /\ stdout' = Append(stdout, WRITTEN)
    /\ exit_status' = 0
    /\ m_pc' = "done"
    /\ UNCHANGED << mframe, redvars, refvars, m_turns, references, stderr, rendered,
                    trace >>

NextMain ==
    \/ MainParse
    \/ MainNoTurns
    \/ MainDetect
    \/ MainGenerateTitle
    \/ MainKeepTitle
    \/ MainRedact
    \/ LoadPresidio
    \/ PresidioMissing
    \/ RedactParagraph
    \/ RedactTurnEnd
    \/ RedactReturn
    \/ MainRedacted
    \/ MainWarn
    \/ MainNotPrivate
    \/ MainCollect
    \/ CliYoutube
    \/ CliOther
    \/ CliSeen
    \/ CliLoopEnd
    \/ ConvNew
    \/ ConvSeen
    \/ RefsReturn
    \/ MainCollected
    \/ MainNoReferences
    \/ MainRender
    \/ MainWritten

SpecMain == InitMain /\ [][NextMain]_vars

----------------------------------------------------------------------------
(* Properties of parse *)

\* the lines of the transcript that block b was assembled from
SrcLines(b) == { block_src[b][k] : k \in 1..Len(block_src[b]) }

\* the history variables say where the data came from: every raw line of every
\* block is the line block_src names, the opening line without its marker
HistoryAgrees ==
    /\ Len(block_src) = Len(blocks)
    /\ Len(turn_block) = Len(turns)
    /\ \A b \in 1..Len(blocks) :
          /\ Len(block_src[b]) = Len(blocks[b].raw_lines)
          /\ \A k \in 1..Len(block_src[b]) :
                /\ block_src[b][k] \in 1..Len(raw_lines)
                /\ blocks[b].raw_lines[k] =
                      IF k = 1 THEN DropFirst(raw_lines[block_src[b][k]], 2)
                      ELSE raw_lines[block_src[b][k]]
    /\ \A t \in 1..Len(turns) :
          /\ turn_block[t] \in 1..Len(blocks)
          /\ turns[t].paragraphs = Paragraphize(blocks[turn_block[t]].raw_lines)

\* C1: with verbose=False no paragraph of a returned Turn holds a fragment of a
\* line classified TOOL_CALL, TOOL_OUTPUT or PROGRESS: every Turn is built from
\* the raw lines of one block, none of which comes from such a line; blocks
\* opened by a TOOL_CALL line give no Turn, and no TOOL_OUTPUT or PROGRESS line
\* is in a USER_TURN or ASST_TURN block.
C1_NoScaffoldingInTurns ==
    (pc = "done" /\ ~verbose) =>
        /\ HistoryAgrees
        /\ \A t \in 1..Len(turns) :
              /\ blocks[turn_block[t]].lt # TOOL_CALL
              /\ \A n \in SrcLines(turn_block[t]) :
                    Classify(raw_lines[n]) \notin { TOOL_CALL, TOOL_OUTPUT, PROGRESS }
        /\ \A b \in 1..Len(blocks) :
              blocks[b].lt \in { USER_TURN, ASST_TURN } =>
                 \A n \in SrcLines(b) :
                    Classify(raw_lines[n]) \notin { TOOL_OUTPUT, PROGRESS }

\* C1 witness: a non-verbose parse has returned a Turn for a transcript in which
\* a tool-output or progress line directly follows a speaker's line and a
\* tool call is present
C1_Witness ==
    /\ pc = "done"
    /\ ~verbose
    /\ turns # << >>
    /\ \E n \in 1..Len(raw_lines) : Classify(raw_lines[n]) = TOOL_CALL
    /\ \E n \in 2..Len(raw_lines) :
          /\ Classify(raw_lines[n]) \in { TOOL_OUTPUT, PROGRESS }
          /\ Classify(raw_lines[n - 1]) \in { USER_TURN, ASST_TURN }

\* two neighbours in the paragraph list are both text, neither is "---"
AdjacentText(paragraphs) ==
    \E k \in 1..(Len(paragraphs) - 1) :
        paragraphs[k] # Dashes /\ paragraphs[k + 1] # Dashes

\* the paragraph lists _paragraphize has returned to a finished parse
Returned == IF pc = "done" THEN { turns[t].paragraphs : t \in 1..Len(turns) } ELSE { }

\* C2 as stated: _paragraphize is idempotent on its own output, the paragraph
\* list fed back as lines, one paragraph per line, returns the same list.
C2_Original ==
    \A paragraphs \in Returned : Paragraphize(paragraphs) = paragraphs

\* C2 amended: feeding the paragraph list back returns the same list exactly when
\* no two neighbouring paragraphs are both text; two neighbouring text paragraphs
\* are joined into one, so the result differs.
C2_IdempotentUnlessAdjacentText ==
    \A paragraphs \in Returned :
        (Paragraphize(paragraphs) = paragraphs) <=> ~AdjacentText(paragraphs)

\* C2 witness: a returned list of text, "---", text is fed back unchanged, and
\* another returned list has two neighbouring text paragraphs
C2_Witness ==
    /\ pc = "done"
    /\ \E paragraphs \in Returned :
          /\ Len(paragraphs) = 3
          /\ paragraphs[1] # Dashes
          /\ paragraphs[2] = Dashes
          /\ paragraphs[3] # Dashes
          /\ Paragraphize(paragraphs) = paragraphs

\* C4: on the same lines and labels the verbose parse returns at least as many
\* Turns as the non-verbose parse.
C4_VerboseReturnsNoFewer ==
    (pc = "done" /\ second_call) => Len(turns) >= Len(turns_normal)

\* C4 witness: both parses returned Turns, the verbose one more of them
C4_Witness ==
    /\ pc = "done"
    /\ second_call
    /\ turns_normal # << >>
    /\ Len(turns) > Len(turns_normal)

\* no line of the transcript opens a block
NoOpeningLine ==
    \A n \in 1..Len(raw_lines) : Classify(raw_lines[n]) \notin BLOCK_START_TYPES

\* C5: parse raises nothing, and a transcript
\* without any USER_TURN, ASST_TURN or TOOL_CALL line, the empty one included,
\* gives no Turn, verbose or not.
C5_NoFaultAndEmptyWithoutOpeners ==
    /\ pc # "fault"
    /\ (pc = "done" /\ NoOpeningLine) => turns = << >>

\* C5 witness: a verbose parse has returned nothing for a transcript of tool
\* output and text without any opening line
C5_Witness ==
    /\ pc = "done"
    /\ verbose
    /\ NoOpeningLine
    /\ \E n \in 1..Len(raw_lines) : Classify(raw_lines[n]) = TOOL_OUTPUT
    /\ \E n \in 1..Len(raw_lines) :
          Classify(raw_lines[n]) = CONTINUATION /\ Strip(raw_lines[n]) # << >>
    /\ turns = << >>

\* the index of the line that opened block b
OpenedAt(b) == block_src[b][1]

\* C6: the Turns are in the order of the lines that opened their blocks, and each
\* Turn is built from exactly one block, the paragraphs of that block's raw lines;
\* the blocks themselves are in the order of their opening lines.
C6_OrderPreserved ==
    pc = "done" =>
        /\ HistoryAgrees
        /\ \A b \in 1..Len(blocks) :
              /\ Classify(raw_lines[OpenedAt(b)]) = blocks[b].lt
              /\ blocks[b].lt \in BLOCK_START_TYPES
        /\ \A b, c \in 1..Len(blocks) : b < c => OpenedAt(b) < OpenedAt(c)
        /\ \A t, u \in 1..Len(turns) :
              t < u => OpenedAt(turn_block[t]) < OpenedAt(turn_block[u])

\* C6 witness: two Turns were returned, with a discarded block between theirs
C6_Witness ==
    /\ pc = "done"
    /\ Len(turns) = 2
    /\ turn_block[2] > turn_block[1] + 1

\* the positions of the raw lines that are "---" once trimmed
DashLines(lines) == { k \in 1..Len(lines) : Strip(lines[k]) = Dashes }

\* the positions of the paragraphs that are "---"
DashParagraphs(paragraphs) == { k \in 1..Len(paragraphs) : paragraphs[k] = Dashes }

\* C7: in a block that gives a Turn, every raw line that is "---" once trimmed
\* gives a paragraph "---" of its own, between the paragraphs of the lines before
\* it and those of the lines after it, and the Turn has as many "---" paragraphs
\* as the block has such lines.
C7_DashesStandAlone ==
    pc = "done" => \A t \in 1..Len(turns) :
        LET lines == blocks[turn_block[t]].raw_lines
            paragraphs == turns[t].paragraphs
        IN  /\ Cardinality(DashParagraphs(paragraphs)) = Cardinality(DashLines(lines))
            /\ \A k \in DashLines(lines) :
                  paragraphs = Paragraphize(SubSeq(lines, 1, k - 1))
                                  \o << Dashes >>
                                  \o Paragraphize(SubSeq(lines, k + 1, Len(lines)))

\* C7 witness: a Turn whose paragraphs are text, "---", text
C7_Witness ==
    pc = "done" /\ \E t \in 1..Len(turns) :
        /\ Len(turns[t].paragraphs) = 3
        /\ DashParagraphs(turns[t].paragraphs) = { 2 }
        /\ Len(blocks[turn_block[t]].raw_lines) = 3

\* the line begins with the prompt marker, a slash and a word character
PromptThenSlashWord(line) ==
    /\ Len(line) >= 4
    /\ line[1] = PromptGlyph
    /\ line[2] = " "
    /\ line[3] = "/"
    /\ IsWord(line[4])

\* C8: a line that begins with the prompt marker, "/" and a word character is
\* classified TOOL_CALL, not USER_TURN; the block it opens takes the lines that
\* continue it, and with verbose=False that block gives no Turn, so none of
\* these lines is in a user Turn.
C8_SlashCommandIsToolCall ==
    pc = "done" =>
        /\ \A n \in 1..Len(raw_lines) :
              PromptThenSlashWord(raw_lines[n]) => Classify(raw_lines[n]) = TOOL_CALL
        /\ \A b \in 1..Len(blocks) :
              PromptThenSlashWord(raw_lines[OpenedAt(b)]) =>
                 /\ blocks[b].lt = TOOL_CALL
                 /\ \A t \in 1..Len(turns) :
                       turn_block[t] = b => (verbose /\ turns[t].speaker # "user")

\* C8 witness: a non-verbose parse returned a user Turn for a transcript in which
\* a slash command is followed by a line of text that continues it
C8_Witness ==
    /\ pc = "done"
    /\ ~verbose
    /\ \E t \in 1..Len(turns) : turns[t].speaker = "user"
    /\ \E b \in 1..Len(blocks) :
          /\ PromptThenSlashWord(raw_lines[OpenedAt(b)])
          /\ Len(blocks[b].raw_lines) >= 2
          /\ Strip(blocks[b].raw_lines[2]) # << >>

\* C9: the speaker of every Turn is "user" or "assistant", it is "user" exactly
\* when a USER_TURN line opened the Turn's block, and the label is the caller's
\* user_label for "user" and the caller's assistant_label otherwise.
C9_SpeakerAndLabel ==
    pc = "done" => \A t \in 1..Len(turns) :
        /\ turns[t].speaker \in { "user", "assistant" }
        /\ turns[t].speaker = "user" <=>
              Classify(raw_lines[OpenedAt(turn_block[t])]) = USER_TURN
        /\ turns[t].speaker = "user" => turns[t].speaker_label = user_label
        /\ turns[t].speaker = "assistant" => turns[t].speaker_label = assistant_label

\* C9 witness: a verbose parse with the caller's own labels returned a user
\* Turn, an assistant Turn and the Turn of a tool call
C9_Witness ==
    /\ pc = "done"
    /\ user_label = "Alex"
    /\ \E t \in 1..Len(turns) : turns[t].speaker = "user"
    /\ \E t \in 1..Len(turns) : blocks[turn_block[t]].lt = ASST_TURN
    /\ \E t \in 1..Len(turns) : blocks[turn_block[t]].lt = TOOL_CALL

\* the content of an opening line: what follows the marker, trimmed
Content(line) == Strip(DropFirst(line, 2))

\* every line is a speaker's opening line with content other than "---"
OnlySpeakerLines ==
    \A n \in 1..Len(raw_lines) :
        /\ Classify(raw_lines[n]) \in { USER_TURN, ASST_TURN }
        /\ Content(raw_lines[n]) # << >>
        /\ Content(raw_lines[n]) # Dashes

\* C10: a transcript of speakers' opening lines only, each with content other
\* than "---", gives one Turn per line in line order, with the line's speaker
\* and the line's content as the only paragraph.
C10_OneTurnPerSpeakerLine ==
    (pc = "done" /\ OnlySpeakerLines) =>
        /\ Len(turns) = Len(raw_lines)
        /\ \A n \in 1..Len(turns) :
              /\ turns[n].paragraphs = << Content(raw_lines[n]) >>
              /\ turns[n].speaker =
                    IF raw_lines[n][1] = PromptGlyph THEN "user" ELSE "assistant"

\* C10 witness: a user line then an assistant line gave two Turns
C10_Witness ==
    /\ pc = "done"
    /\ OnlySpeakerLines
    /\ Len(raw_lines) >= 2
    /\ Classify(raw_lines[1]) = USER_TURN
    /\ Classify(raw_lines[2]) = ASST_TURN
    /\ Len(turns) = Len(raw_lines)

\* the next line of pass 1 is a line of tool output or a progress line
AtNoiseLine ==
    /\ pc = "pass1"
    /\ i <= Len(raw_lines)
    /\ Classify(raw_lines[i]) \in { TOOL_OUTPUT, PROGRESS }

\* C11: in pass 1 a TOOL_OUTPUT or PROGRESS line is appended as it is to the
\* current block if there is one and a TOOL_CALL line opened it; otherwise the
\* line is dropped; in both cases no block is added, no other block changes and
\* the current block stays the current block.
C11_NoiseLineOnlyJoinsToolCall ==
    [][ AtNoiseLine =>
          /\ current' = current
          /\ Len(blocks') = Len(blocks)
          /\ \A b \in 1..Len(blocks) :
                IF b = current /\ blocks[b].lt = TOOL_CALL
                THEN /\ blocks'[b].lt = blocks[b].lt
                     /\ blocks'[b].raw_lines = blocks[b].raw_lines \o << raw_lines[i] >>
                ELSE blocks'[b] = blocks[b] ]_vars

\* C11 witness: pass 1 has dropped one line of tool output or progress and has
\* appended another one to the block of a tool call
C11_Witness ==
    /\ pc = "pass1"
    /\ current # 0
    /\ blocks[current].lt = TOOL_CALL
    /\ \E n \in 1..(i - 1) :
          /\ Classify(raw_lines[n]) \in { TOOL_OUTPUT, PROGRESS }
          /\ n \in SrcLines(current)
          /\ blocks[current].raw_lines[Len(blocks[current].raw_lines)] = raw_lines[n]
    /\ \E n \in 1..(i - 1) :
          /\ Classify(raw_lines[n]) \in { TOOL_OUTPUT, PROGRESS }
          /\ \A b \in 1..Len(blocks) : n \notin SrcLines(b)

\* the opening lines before line n
OpenersBefore(n) ==
    { m \in 1..(n - 1) : Classify(raw_lines[m]) \in BLOCK_START_TYPES }

\* the last opening line before line n, when there is one
LastOpenerBefore(n) ==
    CHOOSE m \in OpenersBefore(n) : \A o \in OpenersBefore(n) : o <= m

\* C12: a CONTINUATION line is appended as it is to the block of the last
\* opening line before it, whatever that block's type; a CONTINUATION line
\* before the first opening line is in no block, hence in no Turn, verbose or
\* not.
C12_ContinuationJoinsCurrentBlock ==
    pc = "done" =>
        /\ HistoryAgrees
        /\ \A n \in 1..Len(raw_lines) :
              Classify(raw_lines[n]) = CONTINUATION =>
                 IF OpenersBefore(n) = { }
                 THEN \A b \in 1..Len(blocks) : n \notin SrcLines(b)
                 ELSE \E b \in 1..Len(blocks) :
                         /\ OpenedAt(b) = LastOpenerBefore(n)
                         /\ \E k \in 2..Len(blocks[b].raw_lines) :
                               /\ block_src[b][k] = n
                               /\ blocks[b].raw_lines[k] = raw_lines[n]

\* C12 witness: a header line of text came first, then a speaker's line with a
\* line of text continuing it, and a Turn was returned
C12_Witness ==
    /\ pc = "done"
    /\ Len(raw_lines) >= 3
    /\ Classify(raw_lines[1]) = CONTINUATION
    /\ Strip(raw_lines[1]) # << >>
    /\ Classify(raw_lines[2]) \in { USER_TURN, ASST_TURN }
    /\ Classify(raw_lines[3]) = CONTINUATION
    /\ Len(turns) = 1
    /\ Len(blocks[1].raw_lines) = 2

\* line n opens a block
IsOpenerAt(n) == Classify(raw_lines[n]) \in BLOCK_START_TYPES

\* the opening lines pass 1 has seen so far, in order
OpenersSeen == SelectSeq([n \in 1..(i - 1) |-> n], IsOpenerAt)

\* C13: after every step of pass 1 there is one block per opening line seen so
\* far, in their order; the raw lines of a block are never empty and begin with
\* the opening line less its first two characters; and the current block is
\* None if no opening line was seen and the last block otherwise.
C13_BlocksFollowOpeners ==
    pc = "pass1" =>
        /\ Len(blocks) = Len(OpenersSeen)
        /\ \A b \in 1..Len(blocks) :
              /\ blocks[b].raw_lines # << >>
              /\ blocks[b].raw_lines[1] = DropFirst(raw_lines[OpenersSeen[b]], 2)
              /\ blocks[b].lt = Classify(raw_lines[OpenersSeen[b]])
        /\ current = Len(blocks)
        /\ (current = 0) <=> (OpenersSeen = << >>)

\* C13 witness: pass 1 has read a header line and then the opening lines of two
\* blocks
C13_Witness ==
    /\ pc = "pass1"
    /\ i > Len(raw_lines)
    /\ Len(blocks) = 2
    /\ OpenersSeen[1] > 1
    /\ current = 2

\* C14: every returned Turn has at least one paragraph, every paragraph has at
\* least one character and neither begins nor ends with whitespace, and a block
\* whose raw lines are all blank once trimmed gives no Turn.
C14_ParagraphsNonEmptyAndTrimmed ==
    pc = "done" =>
        /\ \A t \in 1..Len(turns) :
              /\ turns[t].paragraphs # << >>
              /\ \A k \in 1..Len(turns[t].paragraphs) :
                    LET p == turns[t].paragraphs[k]
                    IN  /\ p # << >>
                        /\ p[1] \notin { " ", "\t" }
                        /\ p[Len(p)] \notin { " ", "\t" }
        /\ \A b \in 1..Len(blocks) :
              (\A k \in 1..Len(blocks[b].raw_lines) :
                  \A c \in 1..Len(blocks[b].raw_lines[k]) :
                      blocks[b].raw_lines[k][c] \in { " ", "\t" })
                 => \A t \in 1..Len(turns) : turn_block[t] # b

\* C14 witness: a block of blank lines gave no Turn and the next block gave a
\* Turn from a line that ends with whitespace
C14_Witness ==
    /\ pc = "done"
    /\ Len(blocks) = 2
    /\ Len(blocks[1].raw_lines) = 1
    /\ blocks[1].raw_lines[1] = << " " >>
    /\ turn_block = << 2 >>
    /\ \E k \in 1..Len(blocks[2].raw_lines) :
          LET l == blocks[2].raw_lines[k]
          IN  l # << >> /\ l[Len(l)] \in { " ", "\t" }

\* the first opening line after line o, Len(raw_lines) + 1 if there is none
NextOpenerAfter(o) ==
    CHOOSE m \in (o + 1)..(Len(raw_lines) + 1) :
        /\ \A n \in (o + 1)..(m - 1) : ~IsOpenerAt(n)
        /\ m = Len(raw_lines) + 1 \/ IsOpenerAt(m)

\* the opening line o without its marker, then every line up to the next
\* opening line
ToolCallLines(o) ==
    << DropFirst(raw_lines[o], 2) >> \o SubSeq(raw_lines, o + 1, NextOpenerAfter(o) - 1)

\* C21: with verbose=True every block opened by a TOOL_CALL line, the slash
\* command typed at the prompt included, whose reflow is not empty gives a Turn
\* with speaker "assistant" and the assistant's label; its paragraphs are the
\* reflow of the opening line without its marker followed by the TOOL_OUTPUT,
\* PROGRESS and CONTINUATION lines up to the next opening line.
C21_VerboseToolCallIsAssistantTurn ==
    (pc = "done" /\ verbose) =>
        \A o \in 1..Len(raw_lines) :
            Classify(raw_lines[o]) = TOOL_CALL =>
                LET paras == Paragraphize(ToolCallLines(o))
                    from  == { t \in 1..Len(turns) : OpenedAt(turn_block[t]) = o }
                IN  IF paras = << >> THEN from = { }
                    ELSE \E t \in from :
                            /\ from = { t }
                            /\ turns[t] = [ speaker       |-> "assistant",
                                            paragraphs    |-> paras,
                                            speaker_label |-> assistant_label ]

\* C21 witness: the verbose parse returned an assistant's Turn for a slash
\* command with a line of tool output and a line of text after it
C21_Witness ==
    /\ pc = "done"
    /\ verbose
    /\ Len(raw_lines) = 3
    /\ PromptThenSlashWord(raw_lines[1])
    /\ Classify(raw_lines[2]) = TOOL_OUTPUT
    /\ Classify(raw_lines[3]) = CONTINUATION
    /\ Len(turns) = 1
    /\ turns[1].speaker = "assistant"
    /\ Len(blocks[1].raw_lines) = 3

\* Turn t of the verbose result comes from a speaker's block
FromSpeakerBlock(t) == blocks[turn_block[t]].lt # TOOL_CALL

\* C26: parsed with verbose=False and with verbose=True, the same lines give the
\* same blocks in pass 1, and the non-verbose Turns are the verbose Turns
\* without those of blocks opened by a TOOL_CALL line, in the same order.
C26_NormalIsVerboseWithoutToolCalls ==
    (pc = "done" /\ second_call) =>
        /\ blocks = blocks_normal
        /\ LET keep == SelectSeq([t \in 1..Len(turns) |-> t], FromSpeakerBlock)
           IN  turns_normal = [n \in 1..Len(keep) |-> turns[keep[n]]]

\* C26 witness: the verbose parse returned the Turn of a tool call between the
\* two Turns the non-verbose parse returned
C26_Witness ==
    /\ pc = "done"
    /\ second_call
    /\ Len(turns_normal) = 2
    /\ Len(turns) = 3
    /\ ~FromSpeakerBlock(2)

\* the blocks that hold line n
BlocksOf(n) == { b \in 1..Len(blocks) : n \in SrcLines(b) }

\* C27: with verbose=False a CONTINUATION line that is not blank is part of a
\* returned Turn, its trimmed text within a paragraph, if and only if the last
\* opening line before it is a USER_TURN or ASST_TURN line, whatever
\* TOOL_OUTPUT or PROGRESS lines lie between; after a TOOL_CALL line it is in
\* the block of the tool call and in no Turn.
C27_ContinuationKeptIffSpeakerOpened ==
    (pc = "done" /\ ~verbose) =>
        \A n \in 1..Len(raw_lines) :
            (Classify(raw_lines[n]) = CONTINUATION /\ Strip(raw_lines[n]) # << >>) =>
                LET kept == \E t \in 1..Len(turns) :
                               /\ n \in SrcLines(turn_block[t])
                               /\ \E k \in 1..Len(turns[t].paragraphs) :
                                     Contains(turns[t].paragraphs[k], Strip(raw_lines[n]))
                    bySpeaker ==
                        /\ OpenersBefore(n) # { }
                        /\ Classify(raw_lines[LastOpenerBefore(n)]) \in { USER_TURN, ASST_TURN }
                IN  /\ kept <=> bySpeaker
                    /\ (OpenersBefore(n) # { } /\ ~bySpeaker) =>
                          \E b \in BlocksOf(n) : blocks[b].lt = TOOL_CALL

\* C27 witness: a line of text after a dropped line of tool output joined the
\* Turn of the speaker's line before them
C27_Witness ==
    /\ pc = "done"
    /\ ~verbose
    /\ Len(raw_lines) = 3
    /\ Classify(raw_lines[1]) \in { USER_TURN, ASST_TURN }
    /\ Classify(raw_lines[2]) \in { TOOL_OUTPUT, PROGRESS }
    /\ Classify(raw_lines[3]) = CONTINUATION
    /\ Len(turns) = 1
    /\ SrcLines(1) = { 1, 3 }
    /\ Len(turns[1].paragraphs) = 1

----------------------------------------------------------------------------
(* Properties of _classify *)

\* the line begins with the bullet marker and a lowercase letter right after it
BulletThenLowercase(line) ==
    /\ Len(line) >= 3
    /\ line[1] = BulletGlyph
    /\ line[2] = " "
    /\ IsLower(line[3])

\* the letters c, t, r, l, the plus sign and the letter o, in either case, are
\* somewhere in the line
MentionsCtrlO(line) ==
    \E k \in 1..Len(line) :
        /\ k + 5 <= Len(line)
        /\ line[k]     \in { "c", "C" }
        /\ line[k + 1] \in { "t", "T" }
        /\ line[k + 2] \in { "r", "R" }
        /\ line[k + 3] \in { "l", "L" }
        /\ line[k + 4] = "+"
        /\ line[k + 5] \in { "o", "O" }

\* C3 as stated: a line that begins with the bullet marker and a lowercase word
\* is classified ASST_TURN, whatever the rest of the line holds.
C3_Original ==
    BulletThenLowercase(cline) => clt = ASST_TURN

\* C3 amended: a line that begins with the bullet marker and a lowercase word is
\* classified ASST_TURN unless "ctrl+o" occurs in it in either case, and then it
\* is classified TOOL_CALL.
C3_LowercaseIsAsstUnlessCtrlO ==
    BulletThenLowercase(cline) =>
        clt = IF MentionsCtrlO(cline) THEN TOOL_CALL ELSE ASST_TURN

\* C3 witness: a lowercase word after the bullet, then an opening parenthesis,
\* is classified ASST_TURN
C3_Witness ==
    /\ BulletThenLowercase(cline)
    /\ \E k \in 4..Len(cline) : cline[k] = "("
    /\ clt = ASST_TURN

\* the line begins with the prompt glyph and a space
HasPromptMarker(line) == Len(line) >= 2 /\ line[1] = PromptGlyph /\ line[2] = " "

\* the line begins with the bullet glyph and a space
HasBulletMarker(line) == Len(line) >= 2 /\ line[1] = BulletGlyph /\ line[2] = " "

\* C15: _classify returns exactly one of the five line types for every line; a
\* line that begins with the prompt marker is USER_TURN or TOOL_CALL and a line
\* that begins with the bullet marker is ASST_TURN or TOOL_CALL, so TOOL_OUTPUT,
\* PROGRESS and CONTINUATION are returned only for lines that begin with neither
\* marker, also when a marker line holds the corner or the sparkle glyph; the
\* rule of the bullet marker is not tried on a prompt line.
C15_MarkerDecidesFirst ==
    /\ clt \in LineType
    /\ HasPromptMarker(cline) => clt \in { USER_TURN, TOOL_CALL }
    /\ HasBulletMarker(cline) => clt \in { ASST_TURN, TOOL_CALL }
    /\ clt \in { TOOL_OUTPUT, PROGRESS, CONTINUATION } =>
          ~HasPromptMarker(cline) /\ ~HasBulletMarker(cline)
    /\ (HasPromptMarker(cline) /\ (Len(cline) < 3 \/ cline[3] # "/")) =>
          clt = USER_TURN

\* C15 witness: a prompt line that holds the corner glyph and "Ctrl+O" is
\* classified USER_TURN
C15_Witness ==
    /\ HasPromptMarker(cline)
    /\ \E k \in 3..Len(cline) : cline[k] = CornerGlyph
    /\ MentionsCtrlO(cline)
    /\ clt = USER_TURN

\* the text after the two characters of the marker
Rest(line) == DropFirst(line, 2)

\* r begins with a capital letter, then any number of letters, digits or
\* underscores, then an opening parenthesis: an identifier as the word is
\* commonly read
IdentifierThenParen(r) ==
    /\ r # << >>
    /\ IsUpper(r[1])
    /\ \E k \in 2..Len(r) :
          /\ r[k] = "("
          /\ \A m \in 2..(k - 1) : IsWord(r[m])

\* r begins with a capital letter, then one or more letters, then an opening
\* parenthesis
CamelCaseThenParen(r) ==
    /\ r # << >>
    /\ IsUpper(r[1])
    /\ \E k \in 3..Len(r) :
          /\ r[k] = "("
          /\ \A m \in 2..(k - 1) : IsLetter(r[m])

\* r begins with the word Searched, ending there
SearchedAsWord(r) ==
    /\ StartsWith(r, SearchedWord)
    /\ Len(r) > Len(SearchedWord) => ~IsWord(r[Len(SearchedWord) + 1])

\* C16 as stated: a line that begins with the bullet marker is TOOL_CALL if and
\* only if the text after the marker begins with a capitalized identifier and an
\* opening parenthesis, or with "Read" and a space, or with the word Searched, or
\* the line holds "ctrl+o" in either case; it is ASST_TURN otherwise.
C16_Original ==
    HasBulletMarker(cline) =>
        clt = IF \/ IdentifierThenParen(Rest(cline))
                 \/ StartsWith(Rest(cline), ReadWord \o << " " >>)
                 \/ SearchedAsWord(Rest(cline))
                 \/ MentionsCtrlO(cline)
              THEN TOOL_CALL ELSE ASST_TURN

\* C16 amended: a line that begins with the bullet marker is TOOL_CALL if and
\* only if the text after the marker begins with a capital letter, one or more
\* letters and an opening parenthesis, or with "Read" and a whitespace
\* character, or with the word Searched, or the line holds "ctrl+o" in either
\* case; it is ASST_TURN otherwise.
C16_ToolCallIffNarrowPattern ==
    HasBulletMarker(cline) =>
        clt = IF \/ CamelCaseThenParen(Rest(cline))
                 \/ \E w \in { " ", "\t" } : StartsWith(Rest(cline), ReadWord \o << w >>)
                 \/ SearchedAsWord(Rest(cline))
                 \/ MentionsCtrlO(cline)
              THEN TOOL_CALL ELSE ASST_TURN

\* C16 witness: one capital letter and an opening parenthesis right after the
\* bullet marker are classified ASST_TURN
C16_Witness ==
    /\ HasBulletMarker(cline)
    /\ Len(cline) >= 4
    /\ IsUpper(cline[3])
    /\ cline[4] = "("
    /\ clt = ASST_TURN

----------------------------------------------------------------------------
(* Properties of _paragraphize *)

\* line k of plines, trimmed
Trimmed(k) == Strip(plines[k])

\* line k is text: not blank and not a thematic break
IsTextAt(k) == Trimmed(k) # << >> /\ Trimmed(k) # Dashes

\* line k gives a paragraph: it begins a run of text lines or is a thematic break
EmitsAt(k) ==
    \/ Trimmed(k) = Dashes
    \/ IsTextAt(k) /\ (k = 1 \/ ~IsTextAt(k - 1))

\* where the run of text lines that holds line k ends
RunEnd(k) ==
    CHOOSE e \in k..Len(plines) :
        /\ \A m \in k..e : IsTextAt(m)
        /\ e = Len(plines) \/ ~IsTextAt(e + 1)

\* the trimmed lines a..b with one space between neighbours
RECURSIVE RunText(_, _)
RunText(a, b) ==
    IF a = b THEN Trimmed(a) ELSE RunText(a, b - 1) \o << " " >> \o Trimmed(b)

\* the paragraph line k gives
ParagraphAt(k) ==
    IF Trimmed(k) = Dashes THEN Dashes ELSE RunText(k, RunEnd(k))

\* the reference reflow of plines
ReferenceReflow ==
    LET at == SelectSeq([k \in 1..Len(plines) |-> k], EmitsAt)
    IN  [n \in 1..Len(at) |-> ParagraphAt(at[n])]

\* C17: _paragraphize returns the reference reflow: one paragraph per maximal
\* run of lines that are neither blank nor "---" once trimmed, made of the
\* run's trimmed lines with single spaces between them, one paragraph "---" per
\* line that is "---" once trimmed, nothing for blank lines, all in the order of
\* the lines.
C17_EqualsReferenceReflow ==
    pparas = ReferenceReflow

\* C17 witness: two blank lines in a row between two lines of text gave two
\* paragraphs
C17_Witness ==
    /\ Len(plines) = 4
    /\ IsTextAt(1)
    /\ Trimmed(2) = << >>
    /\ Trimmed(3) = << >>
    /\ IsTextAt(4)
    /\ Len(pparas) = 2

----------------------------------------------------------------------------
(* Properties of detect_date and detect_title *)

\* the first index of text_head in the set ks
FirstOf(ks) == CHOOSE k \in ks : \A m \in ks : k <= m

\* the head lines that hold an ISO date token
IsoLines == { k \in 1..Len(text_head) : \E a \in 1..Len(text_head[k]) : IsoAt(text_head[k], a) }

\* the head lines that hold a long-form date
WrittenLines ==
    { k \in 1..Len(text_head) :
        \E a \in 1..Len(text_head[k]) : WrittenEnd(text_head[k], a) # 0 }

\* C18: detect_date returns the first ISO token of the first head line that
\* holds one; if no head line holds one, the first long-form date of the first
\* head line that holds one, so an ISO date on a later line wins over a
\* long-form date on an earlier line; and only if no head line holds either,
\* the mtime of the file as YYYY-MM-DD.
C18_IsoThenWrittenThenMtime ==
    dpc = "done" =>
        /\ resolved_date =
              IF IsoLines # { } THEN IsoSearch(text_head[FirstOf(IsoLines)])
              ELSE IF WrittenLines # { }
              THEN WrittenSearch(text_head[FirstOf(WrittenLines)])
              ELSE FormatDate(mtime)
        /\ (mtime # NoTime) <=> (IsoLines = { } /\ WrittenLines = { })
        /\ mtime # NoTime => Len(resolved_date) = 10 /\ IsoAt(resolved_date, 1)

\* C18 witness: a long-form date is on an earlier line than the ISO date that
\* was returned
C18_Witness ==
    /\ dpc = "done"
    /\ \E w \in WrittenLines : \E n \in IsoLines :
          /\ w < n
          /\ FirstOf(IsoLines) = n
          /\ resolved_date = IsoSearch(text_head[n])
          /\ resolved_date # WrittenSearch(text_head[w])

\* the trimmed line s is "#", whitespace and text that begins at q
HeadingAt(s, q) ==
    /\ q \in 3..Len(s)
    /\ s[1] = "#"
    /\ \A m \in 2..(q - 1) : IsSpace(s[m])
    /\ ~IsSpace(s[q])

\* the head lines that are headings
HeadingLines ==
    { k \in 1..Len(text_head) :
        LET s == Strip(text_head[k])
        IN  \E q \in 3..Len(s) : HeadingAt(s, q) }

\* t is s with "_" and "-" made spaces and every letter in upper case exactly
\* where a word begins
IsTitleCased(t, s) ==
    /\ Len(t) = Len(s)
    /\ \A k \in 1..Len(s) :
          /\ s[k] \in { "_", "-" } => t[k] = " "
          /\ s[k] \notin { "_", "-" } => LowerChar(t[k]) = LowerChar(s[k])
          /\ IsLetter(s[k]) =>
                (IsUpper(t[k]) <=> (k = 1 \/ ~IsLetter(s[k - 1])))
          /\ ~IsLetter(s[k]) /\ s[k] \notin { "_", "-" } => t[k] = s[k]

\* C19: detect_title returns the text of the first head line that, trimmed, is
\* "#", whitespace and text, the text being trimmed; if no head line is one, it
\* returns the stem of the file name with "_" and "-" made spaces and
\* title-cased; it always returns, and what it returns is fixed by the head and
\* the stem, whatever turns it was handed.
C19_HeadingElseTitleCasedStem ==
    /\ dpc \in { "title", "date", "done" }
    /\ dpc = "title" => dk \in 1..(Len(text_head) + 1) /\ resolved_title = << >>
    /\ dpc \in { "date", "done" } =>
          IF HeadingLines # { }
          THEN LET k == FirstOf(HeadingLines)
                   s == Strip(text_head[k])
               IN  /\ \E q \in 3..Len(s) :
                         HeadingAt(s, q) /\ resolved_title = SubSeq(s, q, Len(s))
                   /\ stem = << >>
          ELSE /\ stem \in Stems
               /\ IsTitleCased(resolved_title, stem)

\* C19 witness: handed a Turn and a head whose only "#" line is no heading,
\* detect_title returned the title-cased stem
C19_Witness ==
    /\ dpc = "done"
    /\ turns_arg # << >>
    /\ \E k \in 1..Len(text_head) : text_head[k] # << >> /\ text_head[k][1] = "#"
    /\ HeadingLines = { }
    /\ stem # << >>
    /\ resolved_title # stem

----------------------------------------------------------------------------
(* Properties of two calls of parse *)

\* pass 1 of a call that runs alone, from line k on
RECURSIVE BlocksAlone(_, _, _, _)
BlocksAlone(lines, k, bs, cur) ==
    IF k > Len(lines) THEN bs
    ELSE LET lt == Classify(lines[k])
         IN  IF lt \in BLOCK_START_TYPES
             THEN BlocksAlone(lines, k + 1, AppendBlock(bs, NewBlock(lt, lines[k])),
                              Len(bs) + 1)
             ELSE IF \/ lt \in { TOOL_OUTPUT, PROGRESS } /\ AttachesNoise(bs, cur)
                     \/ lt = CONTINUATION /\ AttachesContinuation(bs, cur)
             THEN BlocksAlone(lines, k + 1,
                              [bs EXCEPT ![cur].raw_lines = Append(@, lines[k])], cur)
             ELSE BlocksAlone(lines, k + 1, bs, cur)

\* pass 2 of a call that runs alone, from block k on
RECURSIVE TurnsAlone(_, _, _, _, _, _)
TurnsAlone(bs, k, vb, ul, al, ts) ==
    IF k > Len(bs) THEN ts
    ELSE IF ~Skipped(bs[k], vb) /\ Paragraphize(bs[k].raw_lines) # << >>
    THEN TurnsAlone(bs, k + 1, vb, ul, al, AppendTurn(ts, MakeTurn(bs[k], ul, al)))
    ELSE TurnsAlone(bs, k + 1, vb, ul, al, ts)

\* what parse returns when nothing else runs
ParseAlone(lines, vb, ul, al) ==
    TurnsAlone(BlocksAlone(lines, 1, << >>, 0), 1, vb, ul, al, << >>)

\* C20: of two calls of parse, each on its own lines, with their steps
\* interleaved in any order, each returns exactly the Turns it returns when it
\* runs alone; no step of one call is seen by the other.
C20_InterleavedCallsReturnAsAlone ==
    \A p \in Calls :
        c_frame[p].pc = "done" =>
            c_ret[p] = ParseAlone(c_args[p].raw_lines, c_args[p].verbose,
                                  "User", "Assistant")

\* C20 witness: two calls whose steps overlapped have returned different,
\* non-empty lists of Turns
C20_Witness ==
    /\ overlapped
    /\ \A p \in Calls : c_frame[p].pc = "done" /\ c_ret[p] # << >>
    /\ c_ret[1] # c_ret[2]

----------------------------------------------------------------------------
(* Properties of redact_turns *)

\* the sum of f[1] .. f[n]
RECURSIVE SumTo(_, _)
SumTo(f, n) == IF n = 0 THEN 0 ELSE SumTo(f, n - 1) + f[n]

\* the matches all rules have in the paragraph as it was handed in, each rule
\* looking at that same text
MatchesInInput(para) ==
    SumTo([r \in 1..Len(REGEX_RULES) |-> Subn(REGEX_RULES[r], para, 1).n],
          Len(REGEX_RULES))

\* the matches _apply_regex counts in the paragraph: each rule looks at the
\* text the rule before it left
MatchesInTurn(para) == ApplyRegex(para).n

\* a count per paragraph, summed over all paragraphs of all turns handed in
OverAllParagraphs(Count(_)) ==
    SumTo([t \in 1..Len(r_turns) |->
              SumTo([k \in 1..Len(r_turns[t].paragraphs) |->
                        Count(r_turns[t].paragraphs[k])],
                    Len(r_turns[t].paragraphs))],
          Len(r_turns))

\* as many Turns as were handed in, in their order, each with the speaker, the
\* label and the number of paragraphs of its input Turn
SameStructure ==
    /\ Len(redacted_turns) = Len(r_turns)
    /\ \A t \in 1..Len(r_turns) :
          /\ redacted_turns[t].speaker = r_turns[t].speaker
          /\ redacted_turns[t].speaker_label = r_turns[t].speaker_label
          /\ Len(redacted_turns[t].paragraphs) = Len(r_turns[t].paragraphs)

\* a paragraph no rule matches is returned as it was
CleanParagraphsKept ==
    \A t \in 1..Len(r_turns) : \A k \in 1..Len(r_turns[t].paragraphs) :
        MatchesInInput(r_turns[t].paragraphs[k]) = 0 =>
            redacted_turns[t].paragraphs[k] = r_turns[t].paragraphs[k]

----------------------------------------------------------------------------
(* Properties of collect_references *)

\* the video ids of the matches of a list
IdsOf(ms) == { ms[k].id : k \in 1..Len(ms) }

\* the video ids of the --ref options
CliIds == { VideoId(cli_refs[k]) : k \in 1..Len(cli_refs) } \ { NoId }

\* the --ref options without a video id, in order
RECURSIVE OthersOf(_)
OthersOf(urls) ==
    IF urls = << >> THEN << >>
    ELSE IF VideoId(Head(urls)) = NoId THEN << Head(urls) >> \o OthersOf(Tail(urls))
    ELSE OthersOf(Tail(urls))

\* the references of refs without a video id, in order
RECURSIVE OtherRefs(_)
OtherRefs(rs) ==
    IF rs = << >> THEN << >>
    ELSE IF VideoId(Head(rs).url) = NoId THEN << Head(rs).url >> \o OtherRefs(Tail(rs))
    ELSE OtherRefs(Tail(rs))

\* C23: in what collect_references returns, every reference of source "cli"
\* comes before every reference of source "conversation", the former with URLs
\* of the --ref options and the latter with URLs matched in the paragraphs; no
\* two YouTube references share a video id, and every video id of the options
\* and of the conversation has its reference.
C23_CliFirstAndOneReferencePerVideo ==
    ref_pc = "done" =>
        LET ms  == MatchesOfTurns(ref_turns)
            vid == [k \in 1..Len(refs) |-> VideoId(refs[k].url)]
        IN  /\ \A a, b \in 1..Len(refs) :
                   a < b /\ refs[a].source = "conversation" => refs[b].source = "conversation"
            /\ \A k \in 1..Len(refs) :
                   /\ refs[k].source \in { "cli", "conversation" }
                   /\ refs[k].source = "cli" =>
                          \E m \in 1..Len(cli_refs) : cli_refs[m] = refs[k].url
                   /\ refs[k].source = "conversation" =>
                          /\ vid[k] \in IdsOf(ms) \ CliIds
                          /\ \E m \in 1..Len(ms) : ms[m].url = refs[k].url
            /\ \A a, b \in 1..Len(refs) :
                   vid[a] # NoId /\ vid[a] = vid[b] => a = b
            /\ { vid[k] : k \in 1..Len(refs) } \ { NoId } = CliIds \cup IdsOf(ms)
            /\ OtherRefs(refs) = OthersOf(cli_refs)

\* a video named by a --ref option and by two paragraphs, in three spellings,
\* and a second video named by the conversation alone
C23_Witness ==
    /\ ref_pc = "done"
    /\ Len(refs) = 3
    /\ refs[1].source = "cli" /\ refs[1].url = U_other
    /\ refs[2].source = "cli" /\ refs[2].url = U_shortA
    /\ refs[3].source = "conversation" /\ refs[3].url = U_shortB
    /\ \E m \in 1..Len(conv_urls) : VideoId(conv_urls[m]) = VideoId(U_shortA)
    /\ Len(MatchesOfTurns(ref_turns)) >= 3

----------------------------------------------------------------------------
(* Properties of main *)

\* the place of a call in the trace, 0 if it was not made
Pos(ev) ==
    IF \E k \in 1..Len(trace) : trace[k] = ev
    THEN CHOOSE k \in 1..Len(trace) : trace[k] = ev /\ \A m \in 1..(k - 1) : trace[m] # ev
    ELSE 0

\* the messages of a stream that have the text of message msg
Printed(stream, msg) == { k \in 1..Len(stream) : stream[k].text = msg.text }

\* the status the process ends with, Running while it runs: main's own, or the
\* sys.exit(1) of _load_presidio_engines
ExitStatus == IF m_pc = "redacting" /\ r_pc = "exit" THEN 1 ELSE exit_status

\* C24: in both command lines, when parse returns no Turn, main prints
\* "No conversation turns found in the input file." to stderr and exits with
\* status 1 having called nothing after parse: no detection, no redaction, no
\* reference collection, no renderer, so no output is written; and the message
\* is printed in no other case.
C24_NoTurnsExitsBeforeAnythingElse ==
    /\ (m_pc \notin { "idle", "start" } /\ parsed = << >>) =>
           /\ m_pc \in { "parsed", "exited" }
           /\ trace = << "parse" >>
           /\ RedactIdle
           /\ RefsIdle
           /\ rendered = NotRendered
           /\ stdout = << >>
           /\ ExitStatus \in { Running, 1 }
           /\ m_pc = "exited" => exit_status = 1 /\ stderr = << NO_TURNS >>
    /\ m_pc = "exited" => parsed = << >>
    /\ Printed(stderr, NO_TURNS) # { } => parsed = << >> /\ m_pc = "exited"
    /\ (rendered.called \/ stdout # << >> \/ ExitStatus = 0) => parsed # << >>

\* convo, run with --private, has exited on an empty list
C24_Witness ==
    /\ m_pc = "exited"
    /\ parsed = << >>
    /\ exit_status = 1
    /\ stderr = << NO_TURNS >>
    /\ m_cli = "convo"
    /\ private

\* C25: in a run with --private, once the renderer has been called,
\* redact_turns was called on what parse returned and has returned, the
\* warning was printed after it with the numbers of its summary, reference
\* collection (convo) came after the warning and worked on the redacted
\* Turns, the renderer came last and was handed the Turns redact_turns
\* returned; reference collection never begins before the warning.
C25_RedactedAndWarnedBeforeRefsAndRender ==
    private =>
        /\ rendered.called =>
               /\ r_pc = "done"
               /\ turns_in = parsed
               /\ rendered.turns = redacted_turns
               /\ r_turns = parsed
               /\ SameStructure
               /\ 0 < Pos("redact_turns")
               /\ Pos("redact_turns") < Pos("print_privacy_warning")
               /\ Pos("print_privacy_warning") < Pos("_render")
               /\ Pos("collect_references") # 0 =>
                      /\ Pos("print_privacy_warning") < Pos("collect_references")
                      /\ Pos("collect_references") < Pos("_render")
               /\ m_cli = "convo" => Pos("collect_references") # 0 /\ ref_turns = redacted_turns
               /\ \E k \in 1..Len(stderr) : stderr[k] = PrivacyWarning(summary)
        /\ (~RefsIdle \/ stdout # << >>) =>
               /\ Printed(stderr, PrivacyWarning(summary)) # { }
               /\ Pos("print_privacy_warning") # 0
               /\ r_pc = "done"

\* convo has written a --private output whose Turns differ from the parsed
\* ones, with a reference found in the redacted text
C25_Witness ==
    /\ private
    /\ m_pc = "done"
    /\ m_cli = "convo"
    /\ rendered.called
    /\ rendered.turns # parsed
    /\ summary.regex_count > 0
    /\ summary.entity_counts > 0
    /\ Len(rendered.references) > 0
    /\ \E k \in 1..Len(rendered.references) : rendered.references[k].source = "conversation"

====
